---- MODULE Spec2Model ----
(***************************************************************************)
(* Model of the vafast-cli type generator:                                 *)
(*   - src/src/codegen/schema-to-type.ts : schemaToType and its helpers     *)
(*   - src/src/commands/sync.ts          : buildRouteTree, generateMethodType, *)
(*       generateMethodSignature, generateRouteTreeType, generateClientType, *)
(*       generateTypeDefinition, syncTypes                                  *)
(*   - src/src/cli.ts                    : the sync command                 *)
(*                                                                         *)
(* Text is modelled by TLA+ strings (built with \o).  Strings that the     *)
(* code inspects character by character (route paths, prefixes, HTTP       *)
(* verbs) are sequences of one-character strings.                          *)
(***************************************************************************)
EXTENDS Integers, Sequences, FiniteSets, TLC

VARIABLES schema, mapperPc, typeText,
          routes, stripPrefix, root, routeIdx, treePc,
          routeArg, methodPc, parts, methodType, params, methodSig,
          version, generatedAt, hasSSE, lines, emitPc, passes,
          argv, syncPc, options, response, exitCode, outDirs, outFile

vars == <<schema, mapperPc, typeText, routes, stripPrefix, root, routeIdx, treePc,
          routeArg, methodPc, parts, methodType, params, methodSig,
          version, generatedAt, hasSSE, lines, emitPc, passes,
          argv, syncPc, options, response, exitCode, outDirs, outFile>>

mapperVars == <<schema, mapperPc, typeText>>
treeVars == <<routes, stripPrefix, root, routeIdx, treePc>>
methodVars == <<routeArg, methodPc, parts, methodType, params, methodSig>>
emitVars == <<version, generatedAt, hasSSE, lines, emitPc, passes>>
syncVars == <<argv, syncPc, options, response, exitCode, outDirs, outFile>>

(***************************************************************************)
(* Bounds of the model.                                                    *)
(***************************************************************************)
MaxMembers == 3
MaxProps == 2
MaxRoutes == 3
MaxRenderRoutes == 3

(***************************************************************************)
(* JavaScript values.  Every value is a record with the same four fields,  *)
(*   t : the kind ("undefined","null","bool","num","str","arr","obj")      *)
(*   s : the literal of a scalar (a string's content, a number's digits)   *)
(*   n : the own keys of an object, in insertion order; the characters of  *)
(*       a string                                                          *)
(*   a : the elements of an array; the property values of an object        *)
(***************************************************************************)
RECURSIVE Concat(_)
Concat(cs) == IF cs = <<>> THEN "" ELSE Head(cs) \o Concat(Tail(cs))

Undefined == [t |-> "undefined", s |-> "", n |-> <<>>, a |-> <<>>]
Null == [t |-> "null", s |-> "", n |-> <<>>, a |-> <<>>]
Bool(b) == [t |-> "bool", s |-> IF b THEN "true" ELSE "false", n |-> <<>>, a |-> <<>>]
Num(digits) == [t |-> "num", s |-> digits, n |-> <<>>, a |-> <<>>]
Str(cs) == [t |-> "str", s |-> Concat(cs), n |-> cs, a |-> <<>>]
Arr(elems) == [t |-> "arr", s |-> "", n |-> <<>>, a |-> elems]
Obj(keys, vals) == [t |-> "obj", s |-> "", n |-> keys, a |-> vals]

\* An object from a sequence of <<key, value>> pairs; a pair whose value is
\* Undefined stands for a key that is not present.
RECURSIVE ObjOf(_)
ObjOf(pairs) ==
    IF pairs = <<>> THEN Obj(<<>>, <<>>)
    ELSE LET rest == ObjOf(Tail(pairs))
             p == Head(pairs)
         IN IF p[2] = Undefined THEN rest
            ELSE Obj(<<p[1]>> \o rest.n, <<p[2]>> \o rest.a)

\* !v
Truthy(v) ==
    CASE v.t = "undefined" -> FALSE
      [] v.t = "null" -> FALSE
      [] v.t = "bool" -> v.s = "true"
      [] v.t = "num" -> v.s # "0"
      [] v.t = "str" -> v.s # ""
      [] OTHER -> TRUE

\* Mutant of TypeofObject: no value is an object.
TypeofObjectNever(v) == FALSE

\* typeof v === 'object'
TypeofObject(v) == v.t \in {"obj", "arr", "null"}

\* o.k : the property k of o, undefined when o has no such own key
Get(o, k) ==
    IF o.t = "obj" /\ \E i \in 1..Len(o.n) : o.n[i] = k
    THEN o.a[CHOOSE i \in 1..Len(o.n) : o.n[i] = k]
    ELSE Undefined

\* Array.prototype.join (the array is joined half by half, which keeps the
\* evaluation shallow for a long array)
RECURSIVE Join(_, _)
Join(texts, sep) ==
    IF texts = <<>> THEN ""
    ELSE IF Len(texts) = 1 THEN texts[1]
    ELSE Join(SubSeq(texts, 1, Len(texts) \div 2), sep) \o sep
         \o Join(SubSeq(texts, (Len(texts) \div 2) + 1, Len(texts)), sep)

\* String(i) for an array index
IndexKey(i) == ToString(i)

\* The own keys of an object in the order the engine enumerates them: the
\* integer-like keys in ascending order (here the one-digit ones), then the
\* other keys in the order they were written.  The result is the sequence of
\* positions in o.n.
IndexKeys == [i \in 1..10 |-> IndexKey(i - 1)]
IsIndexKey(k) == \E i \in 1..Len(IndexKeys) : IndexKeys[i] = k
OwnKeyOrder(o) ==
    LET pos(k) == CHOOSE i \in 1..Len(o.n) : o.n[i] = k
        present == SelectSeq(IndexKeys, LAMBDA k : \E i \in 1..Len(o.n) : o.n[i] = k)
        others == SelectSeq([i \in 1..Len(o.n) |-> i], LAMBDA i : ~IsIndexKey(o.n[i]))
    IN [j \in 1..Len(present) |-> pos(present[j])] \o others

\* Object.entries / Object.values: own enumerable keys and values
EntryKeys(v) ==
    CASE v.t = "obj" -> [j \in 1..Len(v.n) |-> v.n[OwnKeyOrder(v)[j]]]
      [] v.t = "arr" -> [i \in 1..Len(v.a) |-> IndexKey(i - 1)]
      [] v.t = "str" -> [i \in 1..Len(v.n) |-> IndexKey(i - 1)]
      [] OTHER -> <<>>

EntryValues(v) ==
    CASE v.t = "obj" -> [j \in 1..Len(v.n) |-> v.a[OwnKeyOrder(v)[j]]]
      [] v.t = "arr" -> v.a
      [] v.t = "str" -> [i \in 1..Len(v.n) |-> Str(<<v.n[i]>>)]
      [] OTHER -> <<>>

\* JSON.stringify of a JSON value
RECURSIVE JSONstringify(_)
JSONstringify(v) ==
    CASE v.t = "null" -> "null"
      [] v.t = "bool" -> v.s
      [] v.t = "num" -> v.s
      [] v.t = "str" -> "\"" \o v.s \o "\""
      [] v.t = "arr" ->
            "[" \o Join([i \in 1..Len(v.a) |-> JSONstringify(v.a[i])], ",") \o "]"
      [] v.t = "obj" ->
            "{" \o Join([i \in 1..Len(v.a) |->
                            "\"" \o EntryKeys(v)[i] \o "\":"
                            \o JSONstringify(EntryValues(v)[i])], ",") \o "}"
      [] OTHER -> "undefined"

(***************************************************************************)
(* schema-to-type.ts.  A call either returns a text or throws.             *)
(***************************************************************************)
Returns(text) == [ok |-> TRUE, text |-> text]
Throws == [ok |-> FALSE, text |-> "TypeError"]

RECURSIVE schemaToType(_)
RECURSIVE arrayToType(_)
RECURSIVE objectToType(_)
RECURSIVE mapSchemaToType(_, _)

\* Mutant of mapSchemaToType: a member equal to the one before it is dropped.
mapSchemaToTypeDedup(list, sep) ==
    IF list.t # "arr" THEN Throws
    ELSE LET kept == SelectSeq([i \in 1..Len(list.a) |-> <<i, list.a[i]>>],
                               LAMBDA p : p[1] = 1 \/ list.a[p[1] - 1] # p[2])
             rs == [i \in 1..Len(kept) |-> schemaToType(kept[i][2])]
         IN IF \E i \in 1..Len(rs) : ~rs[i].ok THEN Throws
            ELSE Returns(Join([i \in 1..Len(rs) |-> rs[i].text], sep))

\* list.map(schemaToType).join(sep); list.map is not a function unless list
\* is an array
mapSchemaToType(list, sep) ==
    IF list.t # "arr" THEN Throws
    ELSE LET rs == [i \in 1..Len(list.a) |-> schemaToType(list.a[i])]
         IN IF \E i \in 1..Len(rs) : ~rs[i].ok THEN Throws
            ELSE Returns(Join([i \in 1..Len(rs) |-> rs[i].text], sep))

\* s.enum.map(v => JSON.stringify(v)).join(' | ')
enumToType(list) ==
    IF list.t # "arr" THEN Throws
    ELSE Returns(Join([i \in 1..Len(list.a) |-> JSONstringify(list.a[i])], " | "))

\* switch (s.type)
typeSwitch(s) ==
    LET ty == Get(s, "type")
        is(name) == ty.t = "str" /\ ty.s = name
    IN CASE is("string") -> Returns("string")
         [] is("number") \/ is("integer") -> Returns("number")
         [] is("boolean") -> Returns("boolean")
         [] is("null") -> Returns("null")
         [] is("array") -> arrayToType(s)
         [] is("object") -> objectToType(s)
         [] OTHER -> IF Truthy(Get(s, "properties")) THEN objectToType(s)
                     ELSE Returns("unknown")

\* Mutant of schemaToType: enum is tested before const.
schemaToTypeEnumFirst(sch) ==
    IF ~Truthy(sch) \/ ~TypeofObject(sch) THEN Returns("unknown")
    ELSE IF Truthy(Get(sch, "enum")) THEN enumToType(Get(sch, "enum"))
    ELSE IF Get(sch, "const") # Undefined THEN Returns(JSONstringify(Get(sch, "const")))
    ELSE IF Truthy(Get(sch, "anyOf")) THEN mapSchemaToType(Get(sch, "anyOf"), " | ")
    ELSE IF Truthy(Get(sch, "oneOf")) THEN mapSchemaToType(Get(sch, "oneOf"), " | ")
    ELSE IF Truthy(Get(sch, "allOf")) THEN mapSchemaToType(Get(sch, "allOf"), " & ")
    ELSE typeSwitch(sch)

schemaToType(sch) ==
    IF ~Truthy(sch) \/ ~TypeofObject(sch) THEN Returns("unknown")
    ELSE IF Get(sch, "const") # Undefined THEN Returns(JSONstringify(Get(sch, "const")))
    ELSE IF Truthy(Get(sch, "enum")) THEN enumToType(Get(sch, "enum"))
    ELSE IF Truthy(Get(sch, "anyOf")) THEN mapSchemaToType(Get(sch, "anyOf"), " | ")
    ELSE IF Truthy(Get(sch, "oneOf")) THEN mapSchemaToType(Get(sch, "oneOf"), " | ")
    ELSE IF Truthy(Get(sch, "allOf")) THEN mapSchemaToType(Get(sch, "allOf"), " & ")
    ELSE typeSwitch(sch)

arrayToType(sch) ==
    IF Truthy(Get(sch, "items"))
    THEN LET itemType == schemaToType(Get(sch, "items"))
         IN IF itemType.ok THEN Returns(itemType.text \o "[]") ELSE Throws
    ELSE Returns("unknown[]")

\* new Set(schema.required || []): the elements, or a TypeError when the
\* value is not iterable
requiredIterable(req) == ~Truthy(req) \/ req.t \in {"arr", "str"}
\* Mutant of requiredHas: the required list is ignored, every field is required.
requiredHasAlways(req, key) == TRUE

requiredHas(req, key) ==
    /\ Truthy(req)
    /\ \E i \in 1..Len(EntryValues(req)) :
          EntryValues(req)[i].t = "str" /\ EntryValues(req)[i].s = key

\* `${key}${optional}: ${propType}`
propText(key, isRequired, propType) ==
    key \o (IF isRequired THEN "" ELSE "?") \o ": " \o propType

objectToType(sch) ==
    LET patternProps == Get(sch, "patternProperties")
        properties == Get(sch, "properties")
        additional == Get(sch, "additionalProperties")
        required == Get(sch, "required")
    IN IF Truthy(patternProps)
       THEN LET patterns == EntryValues(patternProps)
            IN IF Len(patterns) > 0 /\ Truthy(patterns[1])
               THEN LET valueType == schemaToType(patterns[1])
                    IN IF valueType.ok
                       THEN Returns("Record<string, " \o valueType.text \o ">")
                       ELSE Throws
               ELSE Returns("Record<string, unknown>")
       ELSE IF ~Truthy(properties)
       THEN IF additional = Bool(TRUE) THEN Returns("Record<string, unknown>")
            ELSE IF TypeofObject(additional)
            THEN LET valueType == schemaToType(additional)
                 IN IF valueType.ok
                    THEN Returns("Record<string, " \o valueType.text \o ">")
                    ELSE Throws
            ELSE Returns("Record<string, unknown>")
       ELSE IF ~requiredIterable(required) THEN Throws
       ELSE LET keys == EntryKeys(properties)
                vals == EntryValues(properties)
                rs == [i \in 1..Len(vals) |-> schemaToType(vals[i])]
                props == [i \in 1..Len(vals) |->
                            propText(keys[i], requiredHas(required, keys[i]), rs[i].text)]
            IN IF \E i \in 1..Len(rs) : ~rs[i].ok THEN Throws
               ELSE IF Len(props) = 0 THEN Returns("Record<string, unknown>")
               ELSE Returns("{ " \o Join(props, "; ") \o " }")

(***************************************************************************)
(* sync.ts: buildRouteTree.  Strings are sequences of characters.  A Map   *)
(* is the sequence of its entries [k, v] in insertion order.               *)
(***************************************************************************)
UpperChars == <<"A", "B", "C", "D", "E", "F", "G", "H", "I", "J", "K", "L", "M",
                "N", "O", "P", "Q", "R", "S", "T", "U", "V", "W", "X", "Y", "Z">>
LowerChars == <<"a", "b", "c", "d", "e", "f", "g", "h", "i", "j", "k", "l", "m",
                "n", "o", "p", "q", "r", "s", "t", "u", "v", "w", "x", "y", "z">>

LowerOf == [c \in {UpperChars[j] : j \in 1..Len(UpperChars)} |->
               LowerChars[CHOOSE j \in 1..Len(UpperChars) : UpperChars[j] = c]]

\* String.prototype.toLowerCase
ToLowerCase(str) ==
    [i \in 1..Len(str) |-> IF str[i] \in DOMAIN LowerOf THEN LowerOf[str[i]] ELSE str[i]]

\* String.prototype.startsWith
StartsWith(str, pre) == Len(pre) <= Len(str) /\ SubSeq(str, 1, Len(pre)) = pre

\* String.prototype.slice(n)
Slice(str, n) == SubSeq(str, n + 1, Len(str))

\* str.replace(/^\/+|\/+$/g, '')
RECURSIVE TrimLeadingSlashes(_)
TrimLeadingSlashes(str) ==
    IF str # <<>> /\ Head(str) = "/" THEN TrimLeadingSlashes(Tail(str)) ELSE str
RECURSIVE TrimTrailingSlashes(_)
TrimTrailingSlashes(str) ==
    IF str # <<>> /\ str[Len(str)] = "/"
    THEN TrimTrailingSlashes(SubSeq(str, 1, Len(str) - 1))
    ELSE str
TrimSlashes(str) == TrimTrailingSlashes(TrimLeadingSlashes(str))

\* str.split('/'): the pieces between the separators, read left to right
\* (done: the pieces already closed, piece: the one being read)
RECURSIVE SplitFrom(_, _, _)
SplitFrom(str, done, piece) ==
    IF str = <<>> THEN Append(done, piece)
    ELSE IF Head(str) = "/" THEN SplitFrom(Tail(str), Append(done, piece), <<>>)
    ELSE SplitFrom(Tail(str), done, Append(piece, Head(str)))
Split(str) == SplitFrom(str, <<>>, <<>>)

\* Map.prototype.has / get / set
MapHas(map, k) == \E i \in 1..Len(map) : map[i].k = k
MapGet(map, k) == map[CHOOSE i \in 1..Len(map) : map[i].k = k].v

\* Mutant of MapSet: an overwritten entry moves to the end.
MapSetMoveLast(map, k, v) ==
    Append(SelectSeq(map, LAMBDA e : e.k # k), [k |-> k, v |-> v])

MapSet(map, k, v) ==
    IF MapHas(map, k)
    THEN [i \in 1..Len(map) |-> IF map[i].k = k THEN [k |-> k, v |-> v] ELSE map[i]]
    ELSE Append(map, [k |-> k, v |-> v])

EmptyMap == <<>>
DynamicKey == <<":", "i", "d">>
SseKey == <<"s", "s", "e">>
RootPath == <<"/">>

\* Mutant of normalizedPrefix: only the leading slashes are trimmed.
normalizedPrefixLeadingOnly(prefix) ==
    IF prefix # <<>> THEN <<"/">> \o TrimLeadingSlashes(prefix) ELSE <<>>

\* const normalizedPrefix = stripPrefix ? '/' + stripPrefix.replace(...) : undefined
\* (undefined is the empty sequence: a defined prefix begins with '/')
normalizedPrefix(prefix) ==
    IF prefix # <<>> THEN <<"/">> \o TrimSlashes(prefix) ELSE <<>>

\* the path with the prefix removed
strippedPath(path, prefix) ==
    LET np == normalizedPrefix(prefix)
    IN IF np # <<>> /\ StartsWith(path, np)
       THEN (IF Slice(path, Len(np)) # <<>> THEN Slice(path, Len(np)) ELSE RootPath)
       ELSE path

\* Mutant of segmentsOf: empty segments are kept.
segmentsOfUnfiltered(path) == Split(path)

\* path.split('/').filter(Boolean)
segmentsOf(path) == SelectSeq(Split(path), LAMBDA seg : seg # <<>>)

\* segment.startsWith(':')
isDynamicSegment(segment) == StartsWith(segment, <<":">>)

\* Mutant of segmentKey: the parameter name is kept.
segmentKeyKeepName(segment) == segment

\* const key = isDynamic ? ':id' : segment
segmentKey(segment) == IF isDynamicSegment(segment) THEN DynamicKey ELSE segment

\* const methodName = route.sse ? 'sse' : route.method.toLowerCase()
methodName(route) == IF route.sse THEN SseKey ELSE ToLowerCase(route.method)

\* Mutant of newNode: the flag of a new node is never set.
newNodeStatic(isDynamic) == [methods |-> EmptyMap, children |-> EmptyMap, isDynamic |-> FALSE]

newNode(isDynamic) == [methods |-> EmptyMap, children |-> EmptyMap, isDynamic |-> isDynamic]

\* Mutant of setMethod: an existing entry is kept.
setMethodIfAbsent(node, route) ==
    IF MapHas(node.methods, methodName(route)) THEN node
    ELSE [node EXCEPT !.methods = MapSet(@, methodName(route), route)]

\* node.methods.set(methodName, route)
setMethod(node, route) == [node EXCEPT !.methods = MapSet(@, methodName(route), route)]

\* Mutant of isLastSegment: every segment's node receives the method.
isLastSegmentAlways(i, segments) == TRUE

\* i === segments.length - 1 (with i counted from 1)
isLastSegment(i, segments) == i = Len(segments)

\* The body of the loop over segments, from segment i on: the Map `current`
\* after the route has been inserted below it.
RECURSIVE insertSegments(_, _, _, _)
insertSegments(current, segments, i, route) ==
    LET segment == segments[i]
        key == segmentKey(segment)
        created == IF ~MapHas(current, key)
                   THEN MapSet(current, key, newNode(isDynamicSegment(segment)))
                   ELSE current
        node == MapGet(created, key)
        withMethod == IF isLastSegment(i, segments) THEN setMethod(node, route) ELSE node
        withChildren ==
            IF i < Len(segments)
            THEN [withMethod EXCEPT
                     !.children = insertSegments(@, segments, i + 1, route)]
            ELSE withMethod
    IN MapSet(created, key, withChildren)

routeSegments(route, prefix) == segmentsOf(strippedPath(route.path, prefix))

\* One iteration of `for (const route of routes)`.
insertRoute(tree, route, prefix) ==
    LET segments == routeSegments(route, prefix)
    IN IF Len(segments) = 0 THEN tree
       ELSE insertSegments(tree, segments, 1, route)

\* buildRouteTree(routes, stripPrefix) as a whole.
RECURSIVE buildRouteTree(_, _)
buildRouteTree(rs, prefix) ==
    IF rs = <<>> THEN EmptyMap
    ELSE insertRoute(buildRouteTree(SubSeq(rs, 1, Len(rs) - 1), prefix), rs[Len(rs)], prefix)

(***************************************************************************)
(* sync.ts: the emitter.  A route of the contract carries, besides method, *)
(* path and sse, its optional description and its optional schema (both    *)
(* JavaScript values).  A call either returns a text or throws, as the     *)
(* mapper it calls does.                                                   *)
(***************************************************************************)
\* route.schema?.k
schemaField(r, k) ==
    IF r.schema.t \in {"undefined", "null"} THEN Undefined ELSE Get(r.schema, k)

AnyType == Returns("any")

Field(name, type) == [name |-> name, type |-> type]
FieldText(f) == f.name \o ": " \o f.type.text

AllOk(rs) == \A i \in 1..Len(rs) : rs[i].ok
Texts(rs) == [i \in 1..Len(rs) |-> rs[i].text]

\* Mutant of returnField: without a response schema the mapper's fallback
\* type is used.
returnFieldUnknown(r) ==
    IF Truthy(schemaField(r, "response"))
    THEN Field("return", schemaToType(schemaField(r, "response")))
    ELSE Field("return", Returns("unknown"))

\* the return part of generateMethodType
returnField(r) ==
    IF Truthy(schemaField(r, "response"))
    THEN Field("return", schemaToType(schemaField(r, "response")))
    ELSE Field("return", AnyType)

\* the array `parts` of generateMethodType at its end; each type is the
\* result of its schemaToType call
methodTypeParts(r) ==
    (IF Truthy(schemaField(r, "query"))
     THEN <<Field("query", schemaToType(schemaField(r, "query")))>> ELSE <<>>)
    \o (IF Truthy(schemaField(r, "body")) /\ ~r.sse
        THEN <<Field("body", schemaToType(schemaField(r, "body")))>> ELSE <<>>)
    \o (IF Truthy(schemaField(r, "params"))
        THEN <<Field("params", schemaToType(schemaField(r, "params")))>> ELSE <<>>)
    \o <<returnField(r)>>

FieldTexts(ps) == [i \in 1..Len(ps) |-> FieldText(ps[i])]

\* the end of generateMethodType: the text made of `parts`; a schemaToType
\* call that threw has ended the call before
methodTypeOf(ps) ==
    IF \E i \in 1..Len(ps) : ~ps[i].type.ok THEN Throws
    ELSE IF Len(ps) = 1 THEN Returns("{ " \o FieldTexts(ps)[1] \o " }")
    ELSE Returns("{\n      " \o Join(FieldTexts(ps), "\n      ") \o "\n    }")

generateMethodType(r) == methodTypeOf(methodTypeParts(r))

\* const returnType = route.schema?.response ? schemaToType(...) : 'any'
returnType(r) ==
    IF Truthy(schemaField(r, "response"))
    THEN schemaToType(schemaField(r, "response"))
    ELSE AnyType

Param(name, optional, type) == [name |-> name, optional |-> optional, type |-> type]
ParamText(p) == p.name \o (IF p.optional THEN "?" ELSE "") \o ": " \o p.type.text

Wrap(outer, inner) == [ok |-> inner.ok, text |-> outer \o "<" \o inner.text \o ">"]

\* Mutant of sseParams: the query parameter is not pushed.
sseParamsNoQuery(r) ==
    <<Param("callbacks", FALSE, Wrap("SSECallbacks", returnType(r))),
      Param("options", TRUE, Returns("SSESubscribeOptions"))>>

\* the array `params` of the SSE branch of generateMethodSignature
sseParams(r) ==
    (IF Truthy(schemaField(r, "query"))
     THEN <<Param("query", FALSE, schemaToType(schemaField(r, "query")))>> ELSE <<>>)
    \o <<Param("callbacks", FALSE, Wrap("SSECallbacks", returnType(r))),
         Param("options", TRUE, Returns("SSESubscribeOptions"))>>

\* Mutant of httpParams: the query parameter is pushed before the body.
httpParamsQueryFirst(r) ==
    (IF Truthy(schemaField(r, "query"))
     THEN <<Param("query", TRUE, schemaToType(schemaField(r, "query")))>> ELSE <<>>)
    \o (IF Truthy(schemaField(r, "body"))
        THEN <<Param("body", FALSE, schemaToType(schemaField(r, "body")))>> ELSE <<>>)
    \o <<Param("config", TRUE, Returns("RequestConfig"))>>

\* the array `params` of the plain HTTP branch of generateMethodSignature
httpParams(r) ==
    (IF Truthy(schemaField(r, "body"))
     THEN <<Param("body", FALSE, schemaToType(schemaField(r, "body")))>> ELSE <<>>)
    \o (IF Truthy(schemaField(r, "query"))
        THEN <<Param("query", TRUE, schemaToType(schemaField(r, "query")))>> ELSE <<>>)
    \o <<Param("config", TRUE, Returns("RequestConfig"))>>

\* Mutant of signatureParams: the SSE branch also pushes the config parameter.
signatureParamsWithConfig(r) ==
    IF r.sse
    THEN sseParams(r) \o <<Param("config", TRUE, Returns("RequestConfig"))>>
    ELSE httpParams(r)

\* if (route.sse) { ... } : the one branch of generateMethodSignature
signatureParams(r) == IF r.sse THEN sseParams(r) ELSE httpParams(r)

signatureResult(r) ==
    IF r.sse THEN Wrap("SSESubscription", returnType(r))
    ELSE Wrap("Promise", Wrap("ApiResponse", returnType(r)))

\* generateMethodSignature(route, method); the method argument is not used
ParamTexts(ps) == [i \in 1..Len(ps) |-> ParamText(ps[i])]

\* the return statement of generateMethodSignature; a schemaToType call that
\* threw has ended the call before
signatureOf(ps, result) ==
    IF ~result.ok \/ \E i \in 1..Len(ps) : ~ps[i].type.ok THEN Throws
    ELSE Returns("(" \o Join(ParamTexts(ps), ", ") \o ") => " \o result.text)

generateMethodSignature(r, method) == signatureOf(signatureParams(r), signatureResult(r))

\* '  '.repeat(indent)
RECURSIVE Pad(_)
Pad(indent) == IF indent = 0 THEN "" ELSE "  " \o Pad(indent - 1)

Digits == {"0", "1", "2", "3", "4", "5", "6", "7", "8", "9"}
IdentifierChars ==
    {UpperChars[j] : j \in 1..Len(UpperChars)} \cup {LowerChars[j] : j \in 1..Len(LowerChars)}
    \cup Digits \cup {"_", "$"}

\* Mutant of needsQuotes: a leading digit does not ask for quotes.
needsQuotesNoDigitRule(key) == \E i \in 1..Len(key) : key[i] \notin IdentifierChars

\* /[^a-zA-Z0-9_$]/.test(key) || /^\d/.test(key)
needsQuotes(key) ==
    \/ \E i \in 1..Len(key) : key[i] \notin IdentifierChars
    \/ (Len(key) > 0 /\ key[1] \in Digits)

propName(key) == IF needsQuotes(key) THEN "'" \o Concat(key) \o "'" ELSE Concat(key)

\* if (route.description) lines.push(`${pad}  /** ${route.description} */`)
descriptionLines(r, pad) ==
    IF Truthy(r.description)
    THEN <<Returns(pad \o "  /** " \o r.description.s \o " */")>>
    ELSE <<>>

\* lines.push(`${pad}  ${method}: ${methodType}`)
methodLine(pad, method, content) ==
    [ok |-> content.ok, text |-> pad \o "  " \o Concat(method) \o ": " \o content.text]

\* the loop over node.methods of generateRouteTreeType
RECURSIVE typeMethodLines(_, _)
typeMethodLines(methods, pad) ==
    IF methods = <<>> THEN <<>>
    ELSE descriptionLines(Head(methods).v, pad)
         \o <<methodLine(pad, Head(methods).k, generateMethodType(Head(methods).v))>>
         \o typeMethodLines(Tail(methods), pad)

\* the loop over node.methods of generateClientType
RECURSIVE clientMethodLines(_, _)
clientMethodLines(methods, pad) ==
    IF methods = <<>> THEN <<>>
    ELSE descriptionLines(Head(methods).v, pad)
         \o <<methodLine(pad, Head(methods).k,
                         generateMethodSignature(Head(methods).v, Head(methods).k))>>
         \o clientMethodLines(Tail(methods), pad)

\* if (node.children.size > 0) { ...; if (childContent) lines.push(childContent) }
childLines(children, childContent) ==
    IF Len(children) > 0
    THEN IF childContent.ok /\ childContent.text = "" THEN <<>> ELSE <<childContent>>
    ELSE <<>>

joinLines(rs) == IF AllOk(rs) THEN Returns(Join(Texts(rs), "\n")) ELSE Throws

RECURSIVE treeTypeLines(_, _)
\* the array `lines` of generateRouteTreeType at its end
treeTypeLines(tree, indent) ==
    IF tree = <<>> THEN <<>>
    ELSE <<Returns(Pad(indent) \o propName(Head(tree).k) \o ": {")>>
         \o typeMethodLines(Head(tree).v.methods, Pad(indent))
         \o childLines(Head(tree).v.children,
                       joinLines(treeTypeLines(Head(tree).v.children, indent + 1)))
         \o <<Returns(Pad(indent) \o "}")>>
         \o treeTypeLines(Tail(tree), indent)

generateRouteTreeType(tree, indent) == joinLines(treeTypeLines(tree, indent))

RECURSIVE clientTypeLines(_, _)
\* the array `lines` of generateClientType at its end
clientTypeLines(tree, indent) ==
    IF tree = <<>> THEN <<>>
    ELSE <<Returns(Pad(indent) \o propName(Head(tree).k) \o ": {")>>
         \o clientMethodLines(Head(tree).v.methods, Pad(indent))
         \o childLines(Head(tree).v.children,
                       joinLines(clientTypeLines(Head(tree).v.children, indent + 1)))
         \o <<Returns(Pad(indent) \o "}")>>
         \o clientTypeLines(Tail(tree), indent)

generateClientType(tree, indent) == joinLines(clientTypeLines(tree, indent))

(***************************************************************************)
(* generateTypeDefinition.  Its array `lines` is a sequence of texts; the  *)
(* artifact is their join.  The literals are the source's, with the        *)
(* Chinese words of the comments written in English and each backquote     *)
(* written as an apostrophe (a TLA+ string holds neither).                 *)
(***************************************************************************)
\* Mutant of someSse: only the routes that get an address are looked at.
someSseAddressed(rs) == \E i \in 1..Len(rs) : rs[i].sse /\ Len(segmentsOf(rs[i].path)) > 0

\* contract.routes.some(route => route.sse)
someSse(rs) == \E i \in 1..Len(rs) : rs[i].sse

\* Mutant of newLines: the array of the pass before is used again.
staleLines == lines

\* const lines: string[] = []
newLines == <<>>

GeneratedAtLine(at) == " * generated at: " \o at
VersionLine(v) == " * version: " \o v

headerLines(v, at) ==
    << "/**",
       " * generated API type definitions",
       GeneratedAtLine(at),
       VersionLine(v),
       " * ",
       " * do not edit this file, run 'vafast sync' to generate it again",
       " */",
       "" >>

SseImportLine ==
    "import type { ApiResponse, RequestConfig, Client, EdenClient, SSESubscription, SSESubscribeOptions } from '@vafast/api-client'"
PlainImportLine ==
    "import type { ApiResponse, RequestConfig, Client, EdenClient } from '@vafast/api-client'"
EdenImportLine == "import { eden } from '@vafast/api-client'"

importLines(sse) ==
    << IF sse THEN SseImportLine ELSE PlainImportLine, EdenImportLine, "" >>

CallbacksHead == "interface SSECallbacks<T> {"

callbackLines ==
    << "/** SSE callbacks */",
       CallbacksHead,
       "  onMessage: (data: T) => void",
       "  onError?: (error: { code: number; message: string }) => void",
       "  onOpen?: () => void",
       "  onClose?: () => void",
       "  onReconnect?: (attempt: number, maxAttempts: number) => void",
       "  onMaxReconnects?: () => void",
       "}",
       "" >>

ApiHead == "export type Api = {"
ClientHead == "export interface ApiClient {"
AliasLine == "export type ApiClientType = EdenClient<Api>"
FactoryHead == "export function createApiClient(client: Client): EdenClient<Api> {"

apiLines(treeText) ==
    << "/** API contract type */", ApiHead, treeText, "}", "" >>

\* Mutant of clientLines: the block is opened as the contract type was.
clientLinesAsApi(treeText) ==
    << "/** API client type (full IDE hints) */", ApiHead, treeText, "}", "" >>

clientLines(treeText) ==
    << "/** API client type (full IDE hints) */", ClientHead, treeText, "}", "" >>

aliasLines ==
    << "/** API client type alias (inferred by EdenClient, fully type checked) */",
       AliasLine,
       "" >>

factoryLines ==
    << "/**",
       " * create a type safe API client",
       " * ",
       " * @example",
       " * '''typescript",
       " * import { createClient } from '@vafast/api-client'",
       " * import { createApiClient } from './api.generated'",
       " * ",
       " * const client = createClient('/api').use(authMiddleware)",
       " * const api = createApiClient(client)",
       " * ",
       " * // full IDE hints and type checks",
       " * const { data, error } = await api.users.find.post({ current: 1, pageSize: 10 })",
       " * // a wrong path is reported by TypeScript",
       " * // api.nonExistent.post() // Error: Property 'nonExistent' does not exist",
       " * '''",
       " */",
       FactoryHead,
       "  return eden<Api>(client)",
       "}",
       "" >>

(***************************************************************************)
(* cli.ts and syncTypes of sync.ts: one run of 'vafast sync'.              *)
(*   argv     : what the user typed: the values of --url, --out and        *)
(*              --strip-prefix, "" or <<>> for an option that is not given *)
(*   options  : the SyncOptions handed to syncTypes                        *)
(*   response : what the server does with the request (the environment)    *)
(*   exitCode : the arguments of the calls of process.exit, in order        *)
(*   outDirs  : the directories mkdirSync created                          *)
(*   outFile  : the file writeFileSync wrote                               *)
(* A file path is a sequence of characters.  The url is one that new URL   *)
(* accepts.  The option parser (cac) is a dependency: an option the        *)
(* command does not declare is either refused by it or left out of what    *)
(* the action reads.                                                       *)
(***************************************************************************)
NoValue == ""
NoFile == [path |-> <<>>, text |-> ""]
NoOptions == [url |-> NoValue, output |-> <<>>, endpoint |-> NoValue, stripPrefix |-> <<>>]

\* .option('--out <path>', ..., { default: 'src/api.generated.ts' })
DefaultOut ==
    << "s", "r", "c", "/", "a", "p", "i", ".", "g", "e", "n", "e", "r", "a", "t", "e",
       "d", ".", "t", "s" >>
\* .option('--endpoint <path>', ..., { default: '/__contract__' })
DefaultEndpoint == "/__contract__"

\* The options the sync command declares: an option outside of them never
\* reaches the action.
DeclaredOptions == {"url", "out", "endpoint"}

\* dirname(output) of node:path, for a path without a trailing slash
dirname(path) ==
    LET slashes == { i \in 1..Len(path) : path[i] = "/" }
    IN IF slashes = {} THEN <<".">>
       ELSE LET last == CHOOSE i \in slashes : \A j \in slashes : j <= i
            IN IF last = 1 THEN <<"/">> ELSE SubSeq(path, 1, last - 1)

\* Mutant of retrievalFails: the status of the response is not looked at.
retrievalFailsStatusBlind(resp) == resp.rejects \/ ~resp.parses

\* the try block of syncTypes throws: fetch rejects, the status is not a
\* success, or response.json() rejects
retrievalFails(resp) == resp.rejects \/ ~resp.ok \/ ~resp.parses

(***************************************************************************)
(* Inputs of the mapper: bounded families of schema nodes.                 *)
(***************************************************************************)
SeqsUpTo(S, n) == UNION {[1..k -> S] : k \in 0..n}

TString == Str(<<"s", "t", "r", "i", "n", "g">>)
TNumber == Str(<<"n", "u", "m", "b", "e", "r">>)
TInteger == Str(<<"i", "n", "t", "e", "g", "e", "r">>)
TBoolean == Str(<<"b", "o", "o", "l", "e", "a", "n">>)
TNull == Str(<<"n", "u", "l", "l">>)
TArray == Str(<<"a", "r", "r", "a", "y">>)
TObject == Str(<<"o", "b", "j", "e", "c", "t">>)
TOther == Str(<<"f", "o", "o">>)

RecognizedTypes == {TString, TNumber, TInteger, TBoolean, TNull, TArray, TObject}

SString == ObjOf(<< <<"type", TString>> >>)
SNumber == ObjOf(<< <<"type", TNumber>> >>)
SConstA == ObjOf(<< <<"const", Str(<<"a">>)>> >>)
SEmpty == Obj(<<>>, <<>>)
SObjA == ObjOf(<< <<"type", TObject>>,
                  <<"properties", ObjOf(<< <<"id", SString>> >>)>>,
                  <<"required", Arr(<<Str(<<"i", "d">>)>>)>> >>)

MemberSchemas == {SString, SNumber, SConstA, SEmpty}
EnumValues == {Str(<<"a">>), Str(<<"b">>), Num("1"), Null, Bool(TRUE)}
PropNames == {"a", "b", "1"}
PropSchemas == {SString, SNumber, SObjA}
ExtraRequired == "z"

\* Family A: several markers at once, each well shaped.
PrecedenceSchemas ==
    { ObjOf(<< <<"const", c>>, <<"enum", e>>, <<"anyOf", an>>, <<"oneOf", on>>,
               <<"allOf", al>>, <<"type", ty>>, <<"properties", pr>>,
               <<"items", it>>, <<"required", rq>> >>) :
        c \in {Undefined, Str(<<"k">>), Null},
        e \in {Undefined, Arr(<<Str(<<"a">>), Str(<<"b">>)>>), Arr(<<>>)},
        an \in {Undefined, Arr(<<SString, SNumber>>)},
        on \in {Undefined, Arr(<<SNumber>>)},
        al \in {Undefined, Arr(<<SString, SString>>)},
        ty \in {Undefined, TString, TInteger, TBoolean, TNull, TArray, TObject, TOther},
        pr \in {Undefined, ObjOf(<< <<"a", SString>> >>)},
        it \in {Undefined, SNumber},
        rq \in {Undefined, Arr(<<Str(<<"a">>)>>)} }

\* Family B: one list marker with every member list up to MaxMembers.
ListSchemas ==
    { ObjOf(<< <<m, Arr(M)>> >>) :
        m \in {"anyOf", "oneOf", "allOf"}, M \in SeqsUpTo(MemberSchemas, MaxMembers) }
    \cup { ObjOf(<< <<"enum", Arr(M)>> >>) : M \in SeqsUpTo(EnumValues, MaxMembers) }

\* Family C: object schemas.
PropKeyLists ==
    { ks \in SeqsUpTo(PropNames, MaxProps) :
        \A i, j \in 1..Len(ks) : i # j => ks[i] # ks[j] }
PropertyMaps ==
    UNION { { Obj(ks, vs) : vs \in [1..Len(ks) -> PropSchemas] } : ks \in PropKeyLists }
RequiredArrays ==
    { Arr(<<>>), Arr(<<Str(<<"a">>)>>), Arr(<<Str(<<"b">>)>>),
      Arr(<<Str(<<"b">>), Str(<<"a">>)>>), Arr(<<Str(<<ExtraRequired>>), Str(<<"a">>)>>),
      Arr(<<Str(<<"1">>), Str(<<"a">>), Str(<<"b">>)>>) }
ObjectSchemas ==
    { ObjOf(<< <<"type", ty>>, <<"properties", pr>>, <<"required", rq>>,
               <<"patternProperties", pp>>, <<"additionalProperties", ap>> >>) :
        ty \in {Undefined, TObject},
        pr \in {Undefined} \cup PropertyMaps,
        rq \in {Undefined} \cup RequiredArrays,
        pp \in {Undefined, ObjOf(<< <<"^(.*)$", SNumber>> >>)},
        ap \in {Undefined, Bool(TRUE), Bool(FALSE), SNumber} }

\* Family D: a field holding a value of an unexpected shape, and inputs that
\* are not schema objects at all.
OddValues ==
    { Null, Bool(FALSE), Bool(TRUE), Num("0"), Num("5"), Str(<<>>), Str(<<"a", "b">>),
      Arr(<<>>), Arr(<<SString>>), Arr(<<Num("5")>>), SEmpty, SString }
SchemaFields ==
    { "const", "enum", "anyOf", "oneOf", "allOf", "type", "properties", "items",
      "required", "patternProperties", "additionalProperties" }
OddBases ==
    { <<>>, << <<"type", TObject>> >>, << <<"type", TArray>> >>,
      << <<"type", TObject>>, <<"properties", ObjOf(<< <<"a", SString>> >>)>> >> }
DropKey(pairs, k) == SelectSeq(pairs, LAMBDA p : p[1] # k)
OddSchemas ==
    { ObjOf(DropKey(base, f) \o << <<f, v>> >>) :
        base \in OddBases, f \in SchemaFields, v \in OddValues }
    \cup { Undefined, Null, Bool(TRUE), Num("5"), Str(<<"a">>), Arr(<<>>), Arr(<<SString>>) }

Schemas == PrecedenceSchemas \cup ListSchemas \cup ObjectSchemas \cup OddSchemas

(***************************************************************************)
(* The mapper as a state machine: one call of schemaToType on one input.   *)
(***************************************************************************)
NoRoutes == <<>>
NoPrefix == <<>>

\* No call of generateMethodType / generateMethodSignature is in progress.
MethodIdle ==
    /\ routeArg = Undefined
    /\ methodPc = "idle"
    /\ parts = <<>>
    /\ methodType = [ok |-> FALSE, text |-> ""]
    /\ params = <<>>
    /\ methodSig = [ok |-> FALSE, text |-> ""]

\* No call of generateTypeDefinition is in progress.
EmitIdle ==
    /\ version = ""
    /\ generatedAt = ""
    /\ hasSSE = FALSE
    /\ lines = <<>>
    /\ emitPc = "idle"
    /\ passes = <<>>

\* No run of the sync command is in progress.
SyncIdle ==
    /\ argv = [url |-> NoValue, out |-> <<>>, stripPrefix |-> <<>>]
    /\ syncPc = "idle"
    /\ options = NoOptions
    /\ response = [rejects |-> FALSE, ok |-> FALSE, parses |-> FALSE, hasRoutes |-> FALSE,
                   routes |-> <<>>]
    /\ exitCode = <<>>
    /\ outDirs = {}
    /\ outFile = NoFile

MapperInit ==
    /\ schema \in Schemas
    /\ mapperPc = "call"
    /\ typeText = ""
    /\ routes = NoRoutes
    /\ stripPrefix = NoPrefix
    /\ root = EmptyMap
    /\ routeIdx = 1
    /\ treePc = "idle"
    /\ MethodIdle
    /\ EmitIdle
    /\ SyncIdle

MapperReturn ==
    /\ mapperPc = "call"
    /\ schemaToType(schema).ok
    /\ typeText' = schemaToType(schema).text
    /\ mapperPc' = "returned"
    /\ UNCHANGED <<syncVars, schema, treeVars, methodVars, emitVars>>

MapperThrow ==
    /\ mapperPc = "call"
    /\ ~schemaToType(schema).ok
    /\ mapperPc' = "thrown"
    /\ UNCHANGED <<syncVars, schema, typeText, treeVars, methodVars, emitVars>>

MapperNext == MapperReturn \/ MapperThrow

MapperSpec == MapperInit /\ [][MapperNext]_vars

(***************************************************************************)
(* Properties of the mapper (checked under MapperSpec).                    *)
(***************************************************************************)
Has(s, k) == Get(s, k) # Undefined
Keep(s, keys) ==
    LET idx == SelectSeq([i \in 1..Len(s.n) |-> i], LAMBDA i : s.n[i] \in keys)
    IN Obj([j \in 1..Len(idx) |-> s.n[idx[j]]], [j \in 1..Len(idx) |-> s.a[idx[j]]])

ListMarkers == {"enum", "anyOf", "oneOf", "allOf"}
ObjectFields == {"properties", "required", "additionalProperties", "patternProperties"}

\* Every marker the node carries has the shape the grammar gives it.
WellShaped(s) ==
    /\ s.t = "obj"
    /\ \A m \in ListMarkers : Has(s, m) => Get(s, m).t = "arr"
    /\ Has(s, "type") => Get(s, "type").t = "str"
    /\ \A f \in {"properties", "items", "patternProperties"} :
          Has(s, f) => Get(s, f).t = "obj"
    /\ Has(s, "required") => Get(s, "required").t = "arr"
    /\ Has(s, "additionalProperties") => Get(s, "additionalProperties").t \in {"bool", "obj"}

\* The earliest marker of a node in the order
\* const, enum, anyOf, oneOf, allOf, declared type, properties without type.
FirstMarker(s) ==
    IF Has(s, "const") THEN "const"
    ELSE IF Has(s, "enum") THEN "enum"
    ELSE IF Has(s, "anyOf") THEN "anyOf"
    ELSE IF Has(s, "oneOf") THEN "oneOf"
    ELSE IF Has(s, "allOf") THEN "allOf"
    ELSE IF Get(s, "type") \in RecognizedTypes THEN "type"
    ELSE IF Has(s, "properties") THEN "properties"
    ELSE "fallback"

\* The node reduced to its earliest marker (for a declared type: with the
\* fields that belong to that type).
OnlyFirstMarker(s) ==
    LET m == FirstMarker(s)
    IN CASE m \in {"const"} \cup ListMarkers -> Keep(s, {m})
         [] m = "type" /\ Get(s, "type") = TArray -> Keep(s, {"type", "items"})
         [] m = "type" /\ Get(s, "type") = TObject -> Keep(s, {"type"} \cup ObjectFields)
         [] m = "type" /\ Get(s, "type") \notin {TArray, TObject} -> Keep(s, {"type"})
         [] m = "properties" -> Keep(s, ObjectFields)
         [] OTHER -> Obj(<<>>, <<>>)

MarkerCount(s) ==
    Cardinality({m \in {"const", "type", "properties"} \cup ListMarkers : Has(s, m)})

\* C1: first match wins.  For every well-shaped node the mapper returns, and
\* the text is the rendering of the node reduced to its earliest marker in the
\* order const, enum, anyOf, oneOf, allOf, declared type, properties without
\* type, fallback: the later markers have no effect.
C1_FirstMatchWins ==
    (mapperPc # "call" /\ WellShaped(schema)) =>
        /\ mapperPc = "returned"
        /\ schemaToType(OnlyFirstMarker(schema)) = Returns(typeText)

\* C1 witness: a node carrying const, enum, anyOf and type at once was mapped
\* to the printed literal.
C1_Witness ==
    /\ mapperPc = "returned"
    /\ Has(schema, "const") /\ Has(schema, "enum") /\ Has(schema, "anyOf")
    /\ Has(schema, "type")
    /\ typeText = "\"k\""

\* C2 (as claimed): schemaToType is total, it never throws.
C2_NeverThrows == mapperPc # "thrown"

\* C2 (as claimed, second half): a node without any recognized marker maps to
\* the fallback type.
C2_FallbackUnknown ==
    (mapperPc = "returned" /\ schema.t = "obj" /\ MarkerCount(schema) = 0) =>
        typeText = "unknown"

IsObjectSchema(s) ==
    /\ WellShaped(s)
    /\ FirstMarker(s) \in {"type", "properties"}
    /\ FirstMarker(s) = "type" => Get(s, "type") = TObject
    /\ Has(s, "properties")

RequiredSet(s) ==
    IF Has(s, "required")
    THEN {Get(s, "required").a[i].s : i \in 1..Len(Get(s, "required").a)}
    ELSE {}

\* The order in which the fields of a properties map are enumerated: a
\* permutation of the declared positions that puts the integer-like names
\* first, in ascending order, and leaves the other names in declaration order.
IndexValue(k) == CHOOSE i \in 0..9 : ToString(i) = k
IsIntegerName(k) == \E i \in 0..9 : ToString(i) = k
EnumeratedBefore(keys, a, b) ==
    IF IsIntegerName(keys[a])
    THEN ~IsIntegerName(keys[b]) \/ IndexValue(keys[a]) < IndexValue(keys[b])
    ELSE ~IsIntegerName(keys[b]) /\ a < b
EnumerationOrder(keys) ==
    CHOOSE p \in [1..Len(keys) -> 1..Len(keys)] :
        \A i, j \in 1..Len(keys) : i < j => EnumeratedBefore(keys, p[i], p[j])

\* An object literal: one field per declared property, 'k?' exactly when k is
\* not required.
RECURSIVE FieldList(_, _, _)
FieldList(keys, vals, R) ==
    IF keys = <<>> THEN ""
    ELSE Head(keys) \o (IF Head(keys) \in R THEN "" ELSE "?") \o ": "
         \o schemaToType(Head(vals)).text
         \o (IF Len(keys) = 1 THEN "" ELSE "; " \o FieldList(Tail(keys), Tail(vals), R))
\* ... with the fields in declaration order
ObjectLiteral(s) ==
    "{ " \o FieldList(Get(s, "properties").n, Get(s, "properties").a, RequiredSet(s)) \o " }"
\* ... with the fields in enumeration order
EnumeratedObjectLiteral(s) ==
    LET P == Get(s, "properties")
        p == EnumerationOrder(P.n)
    IN "{ " \o FieldList([i \in 1..Len(p) |-> P.n[p[i]]], [i \in 1..Len(p) |-> P.a[p[i]]],
                         RequiredSet(s)) \o " }"

\* C3 (as claimed): every object schema with declared properties P and
\* required set R maps to the object literal with |P| fields.
C3_ObjectLiteralAlways ==
    (mapperPc # "call" /\ IsObjectSchema(schema)) =>
        /\ mapperPc = "returned"
        /\ typeText = ObjectLiteral(schema)

\* C3 (amended): every object schema with a non-empty properties map P, no
\* patternProperties and required set R maps to the object literal with
\* exactly |P| fields, in the enumeration order of P (integer-like names
\* first, the others in declaration order), field k optional iff k is not in
\* R, each typed by the recursive mapping; required names outside P add nothing.
C3_ObjectLiteral ==
    (/\ mapperPc # "call"
     /\ IsObjectSchema(schema)
     /\ Len(Get(schema, "properties").n) > 0
     /\ ~Has(schema, "patternProperties")) =>
        /\ mapperPc = "returned"
        /\ typeText = EnumeratedObjectLiteral(schema)

\* C3 witness: two declared properties, one of them required, plus a required
\* name that is not declared.
C3_Witness ==
    /\ mapperPc = "returned"
    /\ IsObjectSchema(schema)
    /\ ~Has(schema, "patternProperties")
    /\ Get(schema, "properties").n = <<"b", "a">>
    /\ RequiredSet(schema) = {"a", ExtraRequired}
    /\ typeText = "{ b?: number; a: { id: string } }"

IsListSchema(s) == s.t = "obj" /\ Len(s.n) = 1 /\ s.n[1] \in ListMarkers /\ s.a[1].t = "arr"

ListText(m, M) == schemaToType(ObjOf(<< <<m, Arr(M)>> >>)).text
Separator(m) == IF m = "allOf" THEN " & " ELSE " | "

\* C4: for a member list M, {enum: M}, {anyOf: M}, {oneOf: M} and {allOf: M}
\* are the members' texts in source order, once per occurrence, joined by
\* ' | ' (' & ' for allOf): the empty list gives the empty text, a single
\* member gives that member's text (for enum: its printed literal), a list
\* split in two gives the two halves' texts around one separator, and anyOf
\* and oneOf give the identical text.
C4_JoinInOrder ==
    (mapperPc # "call" /\ IsListSchema(schema)) =>
        LET m == schema.n[1]
            M == schema.a[1].a
        IN /\ mapperPc = "returned"
           /\ Len(M) = 0 => typeText = ""
           /\ Len(M) = 1 =>
                 typeText = IF m = "enum"
                            THEN schemaToType(ObjOf(<< <<"const", M[1]>> >>)).text
                            ELSE schemaToType(M[1]).text
           /\ \A k \in 1..(Len(M) - 1) :
                 typeText = ListText(m, SubSeq(M, 1, k)) \o Separator(m)
                            \o ListText(m, SubSeq(M, k + 1, Len(M)))
           /\ m = "anyOf" => typeText = ListText("oneOf", M)

\* C4 witness: a union with a repeated member keeps both occurrences.
C4_Witness ==
    /\ mapperPc = "returned"
    /\ schema = ObjOf(<< <<"anyOf", Arr(<<SNumber, SString, SNumber>>)>> >>)
    /\ typeText = "number | string | number"

\* An object schema without declared fields: the properties map is absent or
\* empty.
IsFieldlessObject(s) ==
    /\ WellShaped(s)
    /\ FirstMarker(s) \in {"type", "properties"}
    /\ FirstMarker(s) = "type" => Get(s, "type") = TObject
    /\ Has(s, "properties") => Len(Get(s, "properties").n) = 0

\* The node is rendered by objectToType: an object type, or properties
\* without a type, and no earlier marker.
ReachesObjectToType(s) ==
    \/ FirstMarker(s) = "properties"
    \/ FirstMarker(s) = "type" /\ Get(s, "type") = TObject

RecordOf(valueType) == "Record<string, " \o valueType \o ">"

\* The record type decided by additionalProperties alone: the mapped value
\* schema when the properties map is absent and additionalProperties is a
\* schema, the fallback type in every other case.
RecordFromAdditional(s) ==
    IF ~Has(s, "properties") /\ Get(s, "additionalProperties").t = "obj"
    THEN RecordOf(schemaToType(Get(s, "additionalProperties")).text)
    ELSE RecordOf("unknown")

\* The record type decided by patternProperties: the mapped value schema of
\* the first pattern, the fallback type when there is no pattern.
RecordFromPatterns(patterns) ==
    IF Len(patterns) > 0 /\ Truthy(patterns[1])
    THEN RecordOf(schemaToType(patterns[1]).text)
    ELSE RecordOf("unknown")

\* C25 (as claimed): an object schema without declared fields maps to
\* 'Record<string, V>' when additionalProperties is a schema and to
\* 'Record<string, unknown>' in every other case, never to an empty literal.
C25_RecordFromAdditionalOnly ==
    (mapperPc # "call" /\ IsFieldlessObject(schema)) =>
        /\ mapperPc = "returned"
        /\ typeText = RecordFromAdditional(schema)

\* C25 (amended): an object schema without declared fields and without
\* patternProperties maps to 'Record<string, V>' when the properties map is
\* absent and additionalProperties is a schema, and to 'Record<string, unknown>'
\* in every other case; with patternProperties it maps to 'Record<string, P>',
\* P the mapped value schema of the first pattern ('unknown' when there is
\* no pattern), whatever additionalProperties says.  No object schema maps to the empty literal.
C25_RecordWithoutFields ==
    /\ (mapperPc # "call" /\ IsFieldlessObject(schema)) =>
          /\ mapperPc = "returned"
          /\ typeText =
                IF Has(schema, "patternProperties")
                THEN RecordFromPatterns(EntryValues(Get(schema, "patternProperties")))
                ELSE RecordFromAdditional(schema)
    /\ (mapperPc = "returned" /\ ReachesObjectToType(schema)) => typeText # "{  }"

\* C25 witness: an object schema with no properties map and a number schema
\* as additionalProperties was mapped to a record of numbers.
C25_Witness ==
    /\ mapperPc = "returned"
    /\ IsFieldlessObject(schema)
    /\ ~Has(schema, "properties") /\ ~Has(schema, "patternProperties")
    /\ Get(schema, "additionalProperties") = SNumber
    /\ typeText = "Record<string, number>"

\* C30 (as claimed): every schema node, an empty enum, anyOf, oneOf or allOf
\* and an array or record of such a node included, maps to a non-empty type
\* text whose compositions have at least one member.
C30_NonEmptyTypeText ==
    mapperPc = "returned" =>
        typeText \notin {"", "[]", "()[]", RecordOf("")}


(***************************************************************************)
(* Inputs of buildRouteTree.                                               *)
(***************************************************************************)
GET == <<"G", "E", "T">>
POST == <<"P", "O", "S", "T">>
LowerGet == <<"g", "e", "t">>

Route(method, path, sse) == [method |-> method, path |-> path, sse |-> sse]

RouteSet ==
    { Route(GET, <<"/", "a">>, FALSE),
      Route(POST, <<"/", "a">>, FALSE),
      Route(LowerGet, <<"/", "a", "/", ":", "x">>, FALSE),
      Route(GET, <<"/", "a", "/", ":", "y">>, FALSE),
      Route(GET, <<"/", "a">>, TRUE),
      Route(GET, <<"/">>, FALSE),
      Route(GET, <<"/", "p">>, FALSE),
      Route(POST, <<"/", "p", "/", "a">>, FALSE),
      Route(GET, <<"/", "p", "/", "p", "/">>, FALSE) }

Prefixes ==
    { <<>>, <<"/">>, <<"p">>, <<"/", "/", "p", "/">> }

(***************************************************************************)
(* buildRouteTree as a state machine: one step per route of the loop.      *)
(***************************************************************************)
Init ==
    /\ routes \in SeqsUpTo(RouteSet, MaxRoutes)
    /\ stripPrefix \in Prefixes
    /\ root = EmptyMap
    /\ routeIdx = 1
    /\ treePc = "loop"
    /\ schema = Undefined
    /\ mapperPc = "idle"
    /\ typeText = ""
    /\ MethodIdle
    /\ EmitIdle
    /\ SyncIdle

\* if (segments.length === 0) continue
SkipRoute ==
    /\ treePc = "loop"
    /\ routeIdx <= Len(routes)
    /\ Len(routeSegments(routes[routeIdx], stripPrefix)) = 0
    /\ routeIdx' = routeIdx + 1
    /\ UNCHANGED <<syncVars, routes, stripPrefix, root, treePc, mapperVars, methodVars, emitVars>>

\* the route is inserted segment by segment
InsertRoute ==
    /\ treePc = "loop"
    /\ routeIdx <= Len(routes)
    /\ Len(routeSegments(routes[routeIdx], stripPrefix)) > 0
    /\ root' = insertRoute(root, routes[routeIdx], stripPrefix)
    /\ routeIdx' = routeIdx + 1
    /\ UNCHANGED <<syncVars, routes, stripPrefix, treePc, mapperVars, methodVars, emitVars>>

\* return root
ReturnTree ==
    /\ treePc = "loop"
    /\ routeIdx > Len(routes)
    /\ treePc' = "done"
    /\ UNCHANGED <<syncVars, routes, stripPrefix, root, routeIdx, mapperVars, methodVars, emitVars>>

Next == SkipRoute \/ InsertRoute \/ ReturnTree

Spec == Init /\ [][Next]_vars

(***************************************************************************)
(* Properties of buildRouteTree (checked under Spec).                      *)
(***************************************************************************)
\* Every method entry of a trie, with the path of keys of its node.
RECURSIVE TrieEntries(_, _)
TrieEntries(map, at) ==
    UNION { LET here == Append(at, map[i].k)
                ms == map[i].v.methods
            IN { [path |-> here, key |-> ms[j].k, route |-> ms[j].v] : j \in 1..Len(ms) }
               \cup TrieEntries(map[i].v.children, here)
            : i \in 1..Len(map) }

\* Every node of a trie, with the path of keys leading to it.
RECURSIVE TrieNodes(_, _)
TrieNodes(map, at) ==
    UNION { LET here == Append(at, map[i].k)
            IN { [path |-> here, node |-> map[i].v] } \cup TrieNodes(map[i].v.children, here)
            : i \in 1..Len(map) }

Entries == TrieEntries(root, <<>>)
Nodes == TrieNodes(root, <<>>)

\* The routes the loop has already handled.
Processed == 1..(routeIdx - 1)

\* The address of a route: its segments after prefix removal, a segment
\* beginning with ':' replaced by the sentinel.
Address(r) ==
    LET segs == routeSegments(r, stripPrefix)
    IN [i \in 1..Len(segs) |->
           IF segs[i] # <<>> /\ segs[i][1] = ":" THEN DynamicKey ELSE segs[i]]

HasAddress(r) == Len(routeSegments(r, stripPrefix)) >= 1

MaxOf(S) == CHOOSE x \in S : \A y \in S : y <= x

\* C5: every handled non-streaming route with at least one segment has an
\* entry keyed by its lowercased verb on the node its canonicalized segments
\* address; every entry sits on its own route's node (intermediate segments
\* receive none); there is one node per path, so routes sharing a path share
\* the node and its method keys hold all of their verbs.
C5_VerbEntryOnAddressedNode ==
    LET E == Entries
        N == Nodes
    IN /\ \A i \in Processed :
             (~routes[i].sse /\ HasAddress(routes[i])) =>
                 \E e \in E :
                     e.path = Address(routes[i]) /\ e.key = ToLowerCase(routes[i].method)
       /\ \A e \in E : e.path = Address(e.route)
       /\ \A n1, n2 \in N : n1.path = n2.path => n1 = n2

\* C5 witness: GET /a and POST /a ended on the one node 'a' with the method
\* keys get and post, after a nested route through 'a'.
C5_Witness ==
    /\ treePc = "done"
    /\ routes = << Route(LowerGet, <<"/", "a", "/", ":", "x">>, FALSE),
                   Route(GET, <<"/", "a">>, FALSE),
                   Route(POST, <<"/", "a">>, FALSE) >>
    /\ Len(root) = 1
    /\ root[1].k = <<"a">>
    /\ [j \in 1..Len(root[1].v.methods) |-> root[1].v.methods[j].k] = <<LowerGet, ToLowerCase(POST)>>

\* C6 (as claimed): a streaming route's entry is keyed by its lowercased verb,
\* and no node has a method key 'sse'.
C6_SseKeyedByVerb ==
    LET E == Entries
    IN /\ \A i \in Processed :
             (routes[i].sse /\ HasAddress(routes[i])) =>
                 \E e \in E :
                     e.path = Address(routes[i]) /\ e.key = ToLowerCase(routes[i].method)
       /\ \A e \in E : e.key # SseKey

\* Two routes that differ only in the names of their dynamic segments.
DifferOnlyInParamNames(r, q) ==
    LET a == Split(r.path)
        b == Split(q.path)
    IN /\ r.method = q.method
       /\ r.sse = q.sse
       /\ Len(a) = Len(b)
       /\ \A k \in 1..Len(a) :
             a[k] = b[k] \/ (StartsWith(a[k], <<":">>) /\ StartsWith(b[k], <<":">>))
       /\ \E k \in 1..Len(a) : StartsWith(a[k], <<":">>)

\* C7: a key beginning with ':' is the sentinel ':id'; a handled route's node
\* exists under the sentinel at each dynamic position; two handled routes that
\* differ only in parameter names have the same address and never hold entries
\* on two different nodes.
C7_DynamicSentinel ==
    LET E == Entries
        P == { n.path : n \in Nodes }
    IN /\ \A p \in P : \A i \in 1..Len(p) :
             StartsWith(p[i], <<":">>) => p[i] = DynamicKey
       /\ \A i \in Processed :
             HasAddress(routes[i]) => Address(routes[i]) \in P
       /\ \A i, j \in Processed :
             DifferOnlyInParamNames(routes[i], routes[j]) =>
                 /\ Address(routes[i]) = Address(routes[j])
                 /\ Cardinality({ <<e.path, e.key>> :
                       e \in { x \in E : x.route \in {routes[i], routes[j]} } }) <= 1

\* C7 witness: /a/:x and /a/:y were both inserted and share the node a/:id.
C7_Witness ==
    /\ treePc = "done"
    /\ routes = << Route(LowerGet, <<"/", "a", "/", ":", "x">>, FALSE),
                   Route(GET, <<"/", "a", "/", ":", "y">>, FALSE) >>
    /\ { n.path : n \in Nodes } = { << <<"a">> >>, << <<"a">>, DynamicKey >> }
    /\ \E e \in Entries : e.route = routes[2] /\ e.key = LowerGet

\* The prefix without its leading and trailing slashes.
CorePrefix(prefix) ==
    IF \A i \in 1..Len(prefix) : prefix[i] = "/" THEN <<>>
    ELSE LET lo == CHOOSE i \in 1..Len(prefix) :
                       prefix[i] # "/" /\ \A j \in 1..(i - 1) : prefix[j] = "/"
             hi == CHOOSE i \in 1..Len(prefix) :
                       prefix[i] # "/" /\ \A j \in (i + 1)..Len(prefix) : prefix[j] = "/"
         IN SubSeq(prefix, lo, hi)

\* One '/' followed by the trimmed prefix.
OneSlashPrefix == <<"/">> \o CorePrefix(stripPrefix)

MatchesPrefix(r) == stripPrefix # <<>> /\ StartsWith(r.path, OneSlashPrefix)

\* The part of the path the route is inserted under.
Remainder(r) == IF MatchesPrefix(r) THEN Slice(r.path, Len(OneSlashPrefix)) ELSE r.path

CanonicalSegments(path) ==
    LET segs == segmentsOf(path)
    IN [i \in 1..Len(segs) |-> IF segs[i][1] = ":" THEN DynamicKey ELSE segs[i]]

\* C8 (amended): the prefix is normalized to one '/' plus the prefix without
\* leading and trailing slashes, every spelling that differs only in such
\* slashes yields the same trie, a route whose path begins with the normalized
\* prefix is inserted under the remainder of its path, and any other route
\* under its full path.
C8_PrefixNormalized ==
    /\ stripPrefix # <<>> => normalizedPrefix(stripPrefix) = OneSlashPrefix
    /\ treePc = "done" =>
          \A q \in Prefixes \ {stripPrefix} :
              CorePrefix(q) = CorePrefix(stripPrefix) => buildRouteTree(routes, q) = root
    /\ LET K == { <<e.path, e.key>> : e \in Entries }
       IN \A i \in Processed :
             LET addr == CanonicalSegments(Remainder(routes[i]))
             IN addr # <<>> => <<addr, methodName(routes[i])>> \in K

\* C8 (as claimed): in addition, no segment of the prefix is the root key a
\* matching route is inserted under.
C8_PrefixSegmentsNeverRootKeys ==
    /\ C8_PrefixNormalized
    /\ \A i \in Processed :
          (MatchesPrefix(routes[i]) /\ HasAddress(routes[i])) =>
              \A k \in 1..Len(segmentsOf(OneSlashPrefix)) :
                  Address(routes[i])[1] # segmentsOf(OneSlashPrefix)[k]

\* C8 witness: with the prefix spelled '//p/', /p/a and /a ended on the one
\* root node 'a'.
C8_Witness ==
    /\ treePc = "done"
    /\ stripPrefix = <<"/", "/", "p", "/">>
    /\ routes = << Route(POST, <<"/", "p", "/", "a">>, FALSE), Route(GET, <<"/", "a">>, FALSE) >>
    /\ { n.path : n \in Nodes } = { << <<"a">> >> }
    /\ { e.key : e \in Entries } = { ToLowerCase(POST), LowerGet }

\* A route with nothing but separators left after prefix removal.
EmptyAddress(r) == \A k \in 1..Len(Remainder(r)) : Remainder(r)[k] = "/"

RemoveAt(seq, i) == SubSeq(seq, 1, i - 1) \o SubSeq(seq, i + 1, Len(seq))

\* C9: a route with zero segments after prefix removal (the root path, or a
\* path equal to the normalized prefix) leaves no entry in the trie, and the
\* finished trie equals the trie of the sequence without that route.
C9_EmptyAddressDropped ==
    /\ \A i \in 1..Len(routes) :
          (routes[i].path = RootPath \/ (stripPrefix # <<>> /\ routes[i].path = OneSlashPrefix))
              => EmptyAddress(routes[i])
    /\ LET E == Entries
       IN \A i \in Processed :
             EmptyAddress(routes[i]) => \A e \in E : e.route # routes[i]
    /\ treePc = "done" =>
          \A i \in 1..Len(routes) :
              EmptyAddress(routes[i]) =>
                  root = buildRouteTree(RemoveAt(routes, i), stripPrefix)

\* C9 witness: '/' and the path equal to the prefix were dropped, only /a is
\* in the trie.
C9_Witness ==
    /\ treePc = "done"
    /\ stripPrefix = <<"p">>
    /\ routes = << Route(GET, <<"/", "p">>, FALSE), Route(GET, <<"/", "a">>, FALSE),
                   Route(GET, <<"/">>, FALSE) >>
    /\ Cardinality(Nodes) = 1
    /\ Entries = { [path |-> << <<"a">> >>, key |-> LowerGet, route |-> routes[2]] }

\* C10: at all times every (node, method key) pair holds exactly one route,
\* and it is the last handled route that resolves to that node and key.
C10_LastWriteWins ==
    /\ \A e \in TrieEntries(root, <<>>) :
          LET S == { i \in Processed :
                       /\ HasAddress(routes[i])
                       /\ Address(routes[i]) = e.path
                       /\ methodName(routes[i]) = e.key }
          IN S # {} /\ e.route = routes[MaxOf(S)]
    /\ \A n \in TrieNodes(root, <<>>) :
          \A a, b \in 1..Len(n.node.methods) :
              a # b => n.node.methods[a].k # n.node.methods[b].k

\* C10 witness: POST /a, then GET /a, then POST /p/a with the prefix stripped:
\* the node 'a' keeps the keys post, get and post now holds the third route.
C10_Witness ==
    /\ treePc = "done"
    /\ stripPrefix = <<"p">>
    /\ routes = << Route(POST, <<"/", "a">>, FALSE), Route(GET, <<"/", "a">>, FALSE),
                   Route(POST, <<"/", "p", "/", "a">>, FALSE) >>
    /\ Len(root) = 1
    /\ root[1].v.methods = << [k |-> ToLowerCase(POST), v |-> routes[3]],
                              [k |-> LowerGet, v |-> routes[2]] >>

\* p is a prefix of q.
IsPrefixOf(p, q) == Len(p) <= Len(q) /\ SubSeq(q, 1, Len(p)) = p

\* C27: after any sequence of insertions every node holds a method entry or
\* has a descendant that does, a node without children holds at least one
\* entry, and a node is flagged dynamic exactly when its key is ':id'.
C27_NodesCarryMethods ==
    \A n \in Nodes :
        /\ \E e \in Entries : IsPrefixOf(n.path, e.path)
        /\ Len(n.node.children) = 0 => Len(n.node.methods) >= 1
        /\ n.node.isDynamic <=> n.path[Len(n.path)] = DynamicKey

\* C27 witness: the tree is built and holds a dynamic node and a node that has
\* no method entry of its own, only a descendant with one.
C27_Witness ==
    /\ treePc = "done"
    /\ \E n \in Nodes : n.node.isDynamic
    /\ \E n \in Nodes : Len(n.node.methods) = 0 /\ Len(n.node.children) > 0
    /\ \E n \in Nodes : ~n.node.isDynamic /\ Len(n.node.methods) > 0

(***************************************************************************)
(* Inputs of generateMethodType / generateMethodSignature: routes whose    *)
(* schema slots are absent, null, a schema the mapper maps, or a schema    *)
(* the mapper throws on.                                                   *)
(***************************************************************************)
SBadEnum == ObjOf(<< <<"enum", Num("5")>> >>)
SlotSchemas == {Undefined, Null, SString, SObjA, SBadEnum}

RouteSchemas ==
    { ObjOf(<< <<"body", b>>, <<"query", q>>, <<"params", p>>, <<"response", rs>> >>) :
        b \in SlotSchemas, q \in SlotSchemas, p \in SlotSchemas, rs \in SlotSchemas }
    \cup {Undefined}

Description == Str(<<"d">>)

RouteContract(method, path, sse, description, sch) ==
    [method |-> method, path |-> path, sse |-> sse,
     description |-> description, schema |-> sch]

MethodRoutes ==
    { RouteContract(m, <<"/", "a">>, sse, d, sch) :
        m \in {GET, POST}, sse \in BOOLEAN, d \in {Undefined, Description},
        sch \in RouteSchemas }

NoResult == [ok |-> FALSE, text |-> ""]

(***************************************************************************)
(* The two per-route renderers as a state machine: generateMethodType is   *)
(* called on one route, then generateMethodSignature on the same route.    *)
(***************************************************************************)
MethodInit ==
    /\ routeArg \in MethodRoutes
    /\ methodPc = "type"
    /\ parts = <<>>
    /\ methodType = NoResult
    /\ params = <<>>
    /\ methodSig = NoResult
    /\ schema = Undefined
    /\ mapperPc = "idle"
    /\ typeText = ""
    /\ routes = NoRoutes
    /\ stripPrefix = NoPrefix
    /\ root = EmptyMap
    /\ routeIdx = 1
    /\ treePc = "idle"
    /\ EmitIdle
    /\ SyncIdle

\* The call of generateMethodType ends: ps is its array `parts`.
MethodTypeEnds(ps, returns) ==
    /\ methodPc = "type"
    /\ methodTypeOf(ps).ok = returns
    /\ parts' = IF returns
                THEN [i \in 1..Len(ps) |-> [name |-> ps[i].name, type |-> ps[i].type.text]]
                ELSE parts
    /\ methodType' = methodTypeOf(ps)
    /\ methodPc' = "signature"
    /\ UNCHANGED <<syncVars, routeArg, params, methodSig, mapperVars, treeVars, emitVars>>

MethodTypeReturn == MethodTypeEnds(methodTypeParts(routeArg), TRUE)

MethodTypeThrow == MethodTypeEnds(methodTypeParts(routeArg), FALSE)

\* The call of generateMethodSignature ends: ps is its array `params`.
MethodSignatureEnds(ps, result, returns) ==
    /\ methodPc = "signature"
    /\ signatureOf(ps, result).ok = returns
    /\ params' = IF returns
                 THEN [i \in 1..Len(ps) |->
                         [name |-> ps[i].name, optional |-> ps[i].optional,
                          type |-> ps[i].type.text]]
                 ELSE params
    /\ methodSig' = signatureOf(ps, result)
    /\ methodPc' = "done"
    /\ UNCHANGED <<syncVars, routeArg, parts, methodType, mapperVars, treeVars, emitVars>>

MethodSignatureReturn ==
    MethodSignatureEnds(signatureParams(routeArg), signatureResult(routeArg), TRUE)

MethodSignatureThrow ==
    MethodSignatureEnds(signatureParams(routeArg), signatureResult(routeArg), FALSE)

MethodNext ==
    MethodTypeReturn \/ MethodTypeThrow \/ MethodSignatureReturn \/ MethodSignatureThrow

MethodSpec == MethodInit /\ [][MethodNext]_vars

(***************************************************************************)
(* Claims about the per-route renderers (checked under MethodSpec).        *)
(***************************************************************************)
\* A schema was supplied in slot k of the route.
Supplied(r, k) == schemaField(r, k).t \notin {"undefined", "null"}

CountNamed(seq, name) == Cardinality({ i \in 1..Len(seq) : seq[i].name = name })
Names(seq) == [i \in 1..Len(seq) |-> seq[i].name]

TypeReturned == methodPc \in {"signature", "done"} /\ methodType.ok
SignatureReturned == methodPc = "done" /\ methodSig.ok

\* The text of the mapped response type, 'any' when no response schema.
MappedReturn(r) ==
    IF Supplied(r, "response") THEN schemaToType(schemaField(r, "response")).text ELSE "any"

\* C11: for every route, streaming or not, the structural descriptor has a
\* query, body, params field iff the matching schema was supplied, and
\* exactly one return field.
C11_FieldsIffSupplied ==
    TypeReturned =>
        /\ \A k \in {"query", "body", "params"} :
              CountNamed(parts, k) = IF Supplied(routeArg, k) THEN 1 ELSE 0
        /\ CountNamed(parts, "return") = 1

\* The type of the return field of the structural descriptor.
ReturnFieldType == parts[CHOOSE i \in 1..Len(parts) : parts[i].name = "return"].type

ExpectedNames(r, slots) ==
    SelectSeq(slots, LAMBDA k : Supplied(r, k)) \o <<"config">>

EnvelopeText(r) == "Promise<ApiResponse<" \o MappedReturn(r) \o ">>"
ParamList(ps) ==
    [i \in 1..Len(ps) |->
        ps[i].name \o (IF ps[i].optional THEN "?" ELSE "") \o ": " \o ps[i].type]
SignatureText(ps, result) == "(" \o Join(ParamList(ps), ", ") \o ") => " \o result

FlipSse(r) == [r EXCEPT !.sse = ~r.sse]

\* C15: every route, streaming or not, gets the signature
\* (body, query?, config?: RequestConfig) => RequestBuilder<mapped response>,
\* so two routes that differ only in the sse flag get the same signature.
C15_UniformRequestBuilder ==
    SignatureReturned =>
        /\ Names(params) = ExpectedNames(routeArg, <<"body", "query">>)
        /\ methodSig.text =
               SignatureText(params, "RequestBuilder<" \o MappedReturn(routeArg) \o ">")
        /\ generateMethodSignature(FlipSse(routeArg), methodName(routeArg)) = methodSig

\* C16: a streaming route that supplies a body schema gets a body parameter
\* typed by schemaToType of that schema, placed before the other parameters.
C16_StreamingBodyParam ==
    (SignatureReturned /\ routeArg.sse /\ Supplied(routeArg, "body")) =>
        /\ params[1].name = "body"
        /\ params[1].type = schemaToType(schemaField(routeArg, "body")).text

(***************************************************************************)
(* Inputs of generateTypeDefinition: contracts of up to MaxEmitRoutes      *)
(* routes, and up to MaxPasses generation passes one after the other.      *)
(***************************************************************************)
MaxEmitRoutes == 2
MaxPasses == 3

EmitRoutes ==
    { RouteContract(GET, <<"/", "a">>, FALSE, Description,
                    ObjOf(<< <<"query", SObjA>> >>)),
      RouteContract(POST, <<"/", "a", "/", ":", "x">>, TRUE, Undefined,
                    ObjOf(<< <<"response", SString>> >>)),
      RouteContract(GET, <<"/">>, TRUE, Undefined, Undefined),
      RouteContract(SseKey, <<"/", "a", "/", ":", "y">>, FALSE, Undefined, Undefined),
      RouteContract(POST, <<"/", "p", "/", "1">>, FALSE, Undefined,
                    ObjOf(<< <<"body", SBadEnum>> >>)),
      RouteContract(GET, <<"/", "p", "/", "a">>, FALSE, Undefined,
                    ObjOf(<< <<"body", SString>>, <<"params", SString>> >>)) }

EmitPrefixes == { <<>>, <<"p">> }

FirstVersion == "1.0.0"
OtherVersion == "2.0.0"
FirstTime == "2026-01-01T00:00:00.000Z"
LaterTime == "2026-02-04T09:48:05.127Z"

\* The contract of an unrelated pass run between two passes over one contract.
OtherRoutes ==
    << RouteContract(POST, <<"/", "b">>, TRUE, Description, ObjOf(<< <<"query", SString>> >>)) >>

(***************************************************************************)
(* generateTypeDefinition as a state machine: one step per block of the    *)
(* function, and one call after the other.  routes, stripPrefix and root   *)
(* are contract.routes, stripPrefix and routeTree; passes is the record of *)
(* the calls that ended.                                                   *)
(***************************************************************************)
EmitInit ==
    /\ routes \in SeqsUpTo(EmitRoutes, MaxEmitRoutes)
    /\ stripPrefix \in EmitPrefixes
    /\ version = FirstVersion
    /\ generatedAt = FirstTime
    /\ hasSSE = FALSE
    /\ lines = <<>>
    /\ emitPc = "begin"
    /\ passes = <<>>
    /\ root = EmptyMap
    /\ routeIdx = 1
    /\ treePc = "idle"
    /\ schema = Undefined
    /\ mapperPc = "idle"
    /\ typeText = ""
    /\ MethodIdle
    /\ SyncIdle

PassRecord(ok) ==
    [routes |-> routes, prefix |-> stripPrefix, version |-> version,
     generatedAt |-> generatedAt, ok |-> ok, lines |-> lines,
     text |-> Join(lines, "\n")]

\* const lines = []; const hasSSE = contract.routes.some(route => route.sse)
EmitBegin ==
    /\ emitPc = "begin"
    /\ lines' = newLines
    /\ hasSSE' = someSse(routes)
    /\ emitPc' = "header"
    /\ UNCHANGED <<syncVars, version, generatedAt, passes, treeVars, mapperVars, methodVars>>

EmitHeader ==
    /\ emitPc = "header"
    /\ lines' = lines \o headerLines(version, generatedAt)
    /\ emitPc' = "imports"
    /\ UNCHANGED <<syncVars, version, generatedAt, hasSSE, passes, treeVars, mapperVars, methodVars>>

EmitImports ==
    /\ emitPc = "imports"
    /\ lines' = lines \o importLines(hasSSE)
    /\ emitPc' = "callbacks"
    /\ UNCHANGED <<syncVars, version, generatedAt, hasSSE, passes, treeVars, mapperVars, methodVars>>

\* if (hasSSE) { ... }
EmitCallbacks ==
    /\ emitPc = "callbacks"
    /\ hasSSE
    /\ lines' = lines \o callbackLines
    /\ emitPc' = "tree"
    /\ UNCHANGED <<syncVars, version, generatedAt, hasSSE, passes, treeVars, mapperVars, methodVars>>

EmitNoCallbacks ==
    /\ emitPc = "callbacks"
    /\ ~hasSSE
    /\ emitPc' = "tree"
    /\ UNCHANGED <<syncVars, version, generatedAt, hasSSE, lines, passes, treeVars, mapperVars,
                   methodVars>>

\* const routeTree = buildRouteTree(contract.routes, stripPrefix)
EmitBuildTree ==
    /\ emitPc = "tree"
    /\ root' = buildRouteTree(routes, stripPrefix)
    /\ emitPc' = "api"
    /\ UNCHANGED <<syncVars, routes, stripPrefix, routeIdx, treePc, version, generatedAt, hasSSE,
                   lines, passes, mapperVars, methodVars>>

\* lines.push(generateRouteTreeType(routeTree, 1)) with its block
EmitApiWith(content) ==
    /\ emitPc = "api"
    /\ content.ok
    /\ lines' = lines \o apiLines(content.text)
    /\ emitPc' = "client"
    /\ UNCHANGED <<syncVars, version, generatedAt, hasSSE, passes, treeVars, mapperVars, methodVars>>

EmitApi == EmitApiWith(generateRouteTreeType(root, 1))

\* a schemaToType call under generateRouteTreeType throws: the call of
\* generateTypeDefinition ends without a result
EmitApiThrowWith(content) ==
    /\ emitPc = "api"
    /\ ~content.ok
    /\ emitPc' = "thrown"
    /\ passes' = Append(passes, PassRecord(FALSE))
    /\ UNCHANGED <<syncVars, version, generatedAt, hasSSE, lines, treeVars, mapperVars, methodVars>>

EmitApiThrow == EmitApiThrowWith(generateRouteTreeType(root, 1))

\* lines.push(generateClientType(routeTree, 1)) with its block; the call
\* throws where generateRouteTreeType would have
EmitClientWith(content) ==
    /\ emitPc = "client"
    /\ lines' = IF content.ok THEN lines \o clientLines(content.text) ELSE lines
    /\ emitPc' = IF content.ok THEN "alias" ELSE "thrown"
    /\ passes' = IF content.ok THEN passes ELSE Append(passes, PassRecord(FALSE))
    /\ UNCHANGED <<syncVars, version, generatedAt, hasSSE, treeVars, mapperVars, methodVars>>

EmitClient == EmitClientWith(generateClientType(root, 1))

EmitAlias ==
    /\ emitPc = "alias"
    /\ lines' = lines \o aliasLines
    /\ emitPc' = "factory"
    /\ UNCHANGED <<syncVars, version, generatedAt, hasSSE, passes, treeVars, mapperVars, methodVars>>

EmitFactory ==
    /\ emitPc = "factory"
    /\ lines' = lines \o factoryLines
    /\ emitPc' = "return"
    /\ UNCHANGED <<syncVars, version, generatedAt, hasSSE, passes, treeVars, mapperVars, methodVars>>

\* return lines.join('\n')
EmitReturn ==
    /\ emitPc = "return"
    /\ emitPc' = "returned"
    /\ passes' = Append(passes, PassRecord(TRUE))
    /\ UNCHANGED <<syncVars, version, generatedAt, hasSSE, lines, treeVars, mapperVars, methodVars>>

\* The next call: the first contract again, generated at a later time, or an
\* unrelated contract.  Nothing of the call before is cleared here.
EmitNextPass ==
    /\ emitPc \in {"returned", "thrown"}
    /\ Len(passes) < MaxPasses
    /\ \/ /\ routes' = passes[1].routes
          /\ stripPrefix' = passes[1].prefix
          /\ version' = passes[1].version
          /\ generatedAt' = LaterTime
       \/ /\ routes' = OtherRoutes
          /\ stripPrefix' = NoPrefix
          /\ version' = OtherVersion
          /\ generatedAt' = FirstTime
    /\ emitPc' = "begin"
    /\ UNCHANGED <<syncVars, hasSSE, lines, passes, root, routeIdx, treePc, mapperVars, methodVars>>

EmitNext ==
    \/ EmitBegin \/ EmitHeader \/ EmitImports \/ EmitCallbacks \/ EmitNoCallbacks
    \/ EmitBuildTree \/ EmitApi \/ EmitApiThrow \/ EmitClient \/ EmitAlias
    \/ EmitFactory \/ EmitReturn \/ EmitNextPass

EmitSpec == EmitInit /\ [][EmitNext]_vars

(***************************************************************************)
(* Claims about generateTypeDefinition (checked under EmitSpec).           *)
(***************************************************************************)
LinesEqual(text) == { i \in 1..Len(lines) : lines[i] = text }
CountLine(text) == Cardinality(LinesEqual(text))
LineOf(text) == CHOOSE i \in 1..Len(lines) : lines[i] = text

ImportsEmitted == emitPc \notin {"idle", "begin", "header", "imports"}
CallbacksDecided == ImportsEmitted /\ emitPc # "callbacks"

UniformImportLine ==
    "import type { RequestConfig, Client, EdenClient, RequestBuilder } from '@vafast/api-client'"

\* C18: the same type-import line (RequestConfig, Client, EdenClient,
\* RequestBuilder) is emitted whether or not a route is streaming, and no
\* local SSECallbacks declaration is ever emitted.
C18_UniformImportNoCallbacks ==
    /\ ImportsEmitted => CountLine(UniformImportLine) = 1
    /\ CountLine(CallbacksHead) = 0

\* The sections of the artifact, each named by the line that opens it.
SectionHeads(v, at, sse) ==
    << GeneratedAtLine(at), VersionLine(v),
       IF sse THEN SseImportLine ELSE PlainImportLine, EdenImportLine >>
    \o (IF sse THEN <<CallbacksHead>> ELSE <<>>)
    \o << ApiHead, ClientHead, AliasLine, FactoryHead >>

\* C19: for every contract, the empty one included, the returned artifact
\* holds its sections exactly once each and in the fixed order: header
\* (generation time, version), imports, the optional callback declaration,
\* Api, ApiClient, ApiClientType, createApiClient.
C19_SectionsOnceInOrder ==
    emitPc = "returned" =>
        LET heads == SectionHeads(version, generatedAt, hasSSE)
        IN /\ lines[1] = "/**"
           /\ \A k \in 1..Len(heads) : CountLine(heads[k]) = 1
           /\ \A k \in 1..(Len(heads) - 1) : LineOf(heads[k]) < LineOf(heads[k + 1])
           /\ ~hasSSE => CountLine(CallbacksHead) = 0
           /\ lines[LineOf(ApiHead) + 1] = generateRouteTreeType(root, 1).text
           /\ lines[LineOf(ClientHead) + 1] = generateClientType(root, 1).text
           /\ passes[Len(passes)].text = Join(lines, "\n")

C19_Witness ==
    /\ emitPc = "returned"
    /\ routes = <<>>
    /\ lines[LineOf(ApiHead) + 1] = ""
    /\ lines[LineOf(ApiHead) + 2] = "}"

SameInput(p, q) ==
    p.routes = q.routes /\ p.prefix = q.prefix /\ p.version = q.version

\* C20: two passes over the same ordered routes, version and prefix end the
\* same way and return the same text but for the line of the generation
\* time, whatever passes ran before or between them.
C20_PassesAgree ==
    \A i, j \in 1..Len(passes) :
        SameInput(passes[i], passes[j]) =>
            /\ passes[i].ok = passes[j].ok
            /\ passes[i].ok =>
                  /\ Len(passes[i].lines) = Len(passes[j].lines)
                  /\ \A k \in 1..Len(passes[i].lines) :
                        \/ passes[i].lines[k] = passes[j].lines[k]
                        \/ /\ passes[i].lines[k] = GeneratedAtLine(passes[i].generatedAt)
                           /\ passes[j].lines[k] = GeneratedAtLine(passes[j].generatedAt)
                  /\ passes[i].generatedAt = passes[j].generatedAt =>
                        passes[i].text = passes[j].text

C20_Witness ==
    /\ Len(passes) = 3
    /\ passes[1].ok /\ passes[2].ok /\ passes[3].ok
    /\ SameInput(passes[1], passes[3])
    /\ ~SameInput(passes[1], passes[2])
    /\ passes[1].generatedAt # passes[3].generatedAt
    /\ passes[1].text # passes[3].text
    /\ passes[1].routes # <<>>

(***************************************************************************)
(* Inputs of the two tree renderers: contracts of up to MaxRenderRoutes    *)
(* routes whose keys are plain, dynamic, digit-led or equal to a method    *)
(* key, one of them with a schema the mapper throws on.                    *)
(***************************************************************************)
RenderRoutes ==
    { RouteContract(GET, <<"/", "a">>, FALSE, Undefined, Undefined),
      RouteContract(POST, <<"/", "a">>, FALSE, Description,
                    ObjOf(<< <<"body", SString>>, <<"query", SObjA>> >>)),
      RouteContract(GET, <<"/", "a", "/", "g", "e", "t">>, FALSE, Undefined, Undefined),
      RouteContract(GET, <<"/", "1", "/", ":", "x">>, TRUE, Description,
                    ObjOf(<< <<"query", SString>> >>)),
      RouteContract(GET, <<"/", "p", "a">>, FALSE, Undefined, Undefined),
      RouteContract(POST, <<"/", "p", "/", "a">>, FALSE, Undefined,
                    ObjOf(<< <<"body", SBadEnum>> >>)) }

RenderPrefixes == { <<>>, <<"p">> }

(***************************************************************************)
(* One call of generateTypeDefinition on such a contract.                  *)
(***************************************************************************)
RenderInit ==
    /\ routes \in SeqsUpTo(RenderRoutes, MaxRenderRoutes)
    /\ stripPrefix \in RenderPrefixes
    /\ version = FirstVersion
    /\ generatedAt = FirstTime
    /\ hasSSE = FALSE
    /\ lines = <<>>
    /\ emitPc = "begin"
    /\ passes = <<>>
    /\ root = EmptyMap
    /\ routeIdx = 1
    /\ treePc = "idle"
    /\ schema = Undefined
    /\ mapperPc = "idle"
    /\ typeText = ""
    /\ MethodIdle
    /\ SyncIdle

RenderNext ==
    \/ EmitBegin \/ EmitHeader \/ EmitImports \/ EmitCallbacks \/ EmitNoCallbacks
    \/ EmitBuildTree \/ EmitApi \/ EmitApiThrow \/ EmitClient \/ EmitAlias
    \/ EmitFactory \/ EmitReturn

RenderSpec == RenderInit /\ [][RenderNext]_vars

(***************************************************************************)
(* Claims about the rendered declarations (checked under RenderSpec).      *)
(***************************************************************************)
\* The two declarations as emitted: the line after the head of each block.
ApiText == lines[LineOf(ApiHead) + 1]
ClientText == lines[LineOf(ClientHead) + 1]
ApiEmitted == emitPc \in {"client", "alias", "factory", "return", "returned"}
ClientEmitted == emitPc \in {"alias", "factory", "return", "returned"}

\* The trie was built by buildRouteTree.
TreeBuilt == emitPc \notin {"idle", "begin", "header", "imports", "callbacks", "tree"}

\* The characters a key may hold without being quoted.
PlainChars ==
    { "A", "B", "C", "D", "E", "F", "G", "H", "I", "J", "K", "L", "M", "N", "O", "P", "Q",
      "R", "S", "T", "U", "V", "W", "X", "Y", "Z", "a", "b", "c", "d", "e", "f", "g", "h",
      "i", "j", "k", "l", "m", "n", "o", "p", "q", "r", "s", "t", "u", "v", "w", "x", "y",
      "z", "0", "1", "2", "3", "4", "5", "6", "7", "8", "9", "_", "$" }
LeadingDigits == { "0", "1", "2", "3", "4", "5", "6", "7", "8", "9" }
MustBeQuoted(key) ==
    \/ \E i \in 1..Len(key) : key[i] \notin PlainChars
    \/ key[1] \in LeadingDigits
KeyText(key) == IF MustBeQuoted(key) THEN "'" \o Concat(key) \o "'" ELSE Concat(key)

\* The line that opens the entry of a node in a declaration.
OpeningLine(n) == Returns(Pad(Len(n.path)) \o KeyText(n.path[Len(n.path)]) \o ": {")
AsTree(n) == <<[k |-> n.path[Len(n.path)], v |-> n.node]>>

\* C21: in the contract type and in the client interface alike, the entry of
\* every trie node opens with its key, in quotes iff the key holds a character
\* outside [A-Za-z0-9_$] or starts with a digit; so ':id' is always quoted, a
\* plain identifier never, and both declarations quote a key the same way.
C21_SameQuoting ==
    TreeBuilt =>
        \A n \in Nodes :
            /\ treeTypeLines(AsTree(n), Len(n.path))[1] = OpeningLine(n)
            /\ clientTypeLines(AsTree(n), Len(n.path))[1] = OpeningLine(n)
            /\ n.node.isDynamic => OpeningLine(n).text = Pad(Len(n.path)) \o "':id': {"

\* C21 witness: a digit-led key, the dynamic key below it and a plain key were
\* emitted in both declarations.
C21_Witness ==
    /\ emitPc = "returned"
    /\ routes = << RouteContract(GET, <<"/", "1", "/", ":", "x">>, TRUE, Description,
                                 ObjOf(<< <<"query", SString>> >>)),
                   RouteContract(GET, <<"/", "a">>, FALSE, Undefined, Undefined) >>
    /\ stripPrefix = NoPrefix
    /\ ApiText = Join(<< "  '1': {",
                         "    ':id': {",
                         "      /** d */",
                         "      sse: {\n      query: string\n      return: any\n    }",
                         "    }",
                         "  }",
                         "  a: {",
                         "    get: { return: any }",
                         "  }" >>, "\n")
    /\ ClientText = Join(<< "  '1': {",
                            "    ':id': {",
                            "      /** d */",
                            "      sse: (query: string, callbacks: SSECallbacks<any>, options?: SSESubscribeOptions) => SSESubscription<any>",
                            "    }",
                            "  }",
                            "  a: {",
                            "    get: (config?: RequestConfig) => Promise<ApiResponse<any>>",
                            "  }" >>, "\n")

\* The routes that are inserted, in the order of the input.
Inserted == SelectSeq(routes, HasAddress)
FirstOccurrences(s) ==
    LET idx == SelectSeq([i \in 1..Len(s) |-> i], LAMBDA i : \A j \in 1..(i - 1) : s[j] # s[i])
    IN [k \in 1..Len(idx) |-> s[idx[k]]]

\* The keys below the address `at`, in the order of their first insertion.
KeysBelow(at) ==
    LET below == SelectSeq(Inserted, LAMBDA r :
                     Len(Address(r)) > Len(at) /\ IsPrefixOf(at, Address(r)))
    IN FirstOccurrences([k \in 1..Len(below) |-> Address(below[k])[Len(at) + 1]])

\* The method keys at the address `at`, in the order of their first insertion,
\* and the route each of them holds at the end: the last one inserted.
RoutesAt(at) == SelectSeq(Inserted, LAMBDA r : Address(r) = at)
MethodKeysAt(at) ==
    FirstOccurrences([k \in 1..Len(RoutesAt(at)) |-> methodName(RoutesAt(at)[k])])
LastRouteAt(at, name) ==
    LET held == SelectSeq(RoutesAt(at), LAMBDA r : methodName(r) = name)
    IN held[Len(held)]

\* What follows 'method: ' in each declaration.
MethodContent(kind, r, name) ==
    IF kind = "type" THEN generateMethodType(r).text
    ELSE generateMethodSignature(r, name).text

\* The lines of one method entry: the doc comment when the route has a
\* description, then the entry.
EntryLines(kind, r, name, indent) ==
    (IF Truthy(r.description)
     THEN <<Pad(indent) \o "  /** " \o r.description.s \o " */">> ELSE <<>>)
    \o <<Pad(indent) \o "  " \o Concat(name) \o ": " \o MethodContent(kind, r, name)>>

RECURSIVE InsertionMethodLines(_, _, _, _)
InsertionMethodLines(kind, names, at, indent) ==
    IF names = <<>> THEN <<>>
    ELSE EntryLines(kind, LastRouteAt(at, Head(names)), Head(names), indent)
         \o InsertionMethodLines(kind, Tail(names), at, indent)

\* A declaration written from the route sequence alone: at every level the
\* keys in first-insertion order, under each key its method entries in
\* first-insertion order, then its children.
RECURSIVE InsertionLines(_, _, _, _)
InsertionLines(kind, keys, at, indent) ==
    IF keys = <<>> THEN <<>>
    ELSE LET here == Append(at, Head(keys))
         IN <<Pad(indent) \o propName(Head(keys)) \o ": {">>
            \o InsertionMethodLines(kind, MethodKeysAt(here), here, indent)
            \o InsertionLines(kind, KeysBelow(here), here, indent + 1)
            \o <<Pad(indent) \o "}">>
            \o InsertionLines(kind, Tail(keys), at, indent)

InsertionText(kind) == Join(InsertionLines(kind, KeysBelow(<<>>), <<>>, 1), "\n")

\* C22: both declarations list, at every level, the keys in the order of
\* their first insertion from the route sequence; an overwritten method entry
\* stays where its key was first inserted; the method entries of a node come
\* before its children.
C22_FirstInsertionOrder ==
    emitPc = "returned" =>
        /\ ApiText = InsertionText("type")
        /\ ClientText = InsertionText("client")

\* C22 witness: a later route overwrote a method entry that is followed by
\* another entry of the same node, and a node received a child before its own
\* method entry.
C22_Witness ==
    /\ emitPc = "returned"
    /\ \E i, j, k \in 1..Len(routes) :
          /\ i < j /\ j < k
          /\ HasAddress(routes[i])
          /\ Address(routes[i]) = Address(routes[j])
          /\ Address(routes[i]) = Address(routes[k])
          /\ methodName(routes[i]) = methodName(routes[k])
          /\ methodName(routes[i]) # methodName(routes[j])
          /\ routes[i] # routes[k]

\* C26 (as claimed): prefix removal only removes whole leading segments:
\* every key on the trie path of an inserted route is ':id' or an entire
\* segment of the route's original path.
C26_WholeSegmentsOnly ==
    TreeBuilt =>
        \A i \in 1..Len(routes) :
            HasAddress(routes[i]) =>
                /\ \E n \in Nodes : n.path = Address(routes[i])
                /\ \A j \in 1..Len(Address(routes[i])) :
                      \/ Address(routes[i])[j] = DynamicKey
                      \/ \E m \in 1..Len(segmentsOf(routes[i].path)) :
                            segmentsOf(routes[i].path)[m] = Address(routes[i])[j]

\* A declaration written from the trie: the entries of both declarations
\* differ in nothing but what follows 'method: '.
RECURSIVE TrieMethodLines(_, _, _)
TrieMethodLines(kind, methods, indent) ==
    IF methods = <<>> THEN <<>>
    ELSE EntryLines(kind, Head(methods).v, Head(methods).k, indent)
         \o TrieMethodLines(kind, Tail(methods), indent)

RECURSIVE TrieLines(_, _, _)
TrieLines(kind, tree, indent) ==
    IF tree = <<>> THEN <<>>
    ELSE <<Pad(indent) \o propName(Head(tree).k) \o ": {">>
         \o TrieMethodLines(kind, Head(tree).v.methods, indent)
         \o TrieLines(kind, Head(tree).v.children, indent + 1)
         \o <<Pad(indent) \o "}">>
         \o TrieLines(kind, Tail(tree), indent)

\* The type of the part or parameter called name, "" when there is none.
TypeNamed(ps, name) ==
    IF \E i \in 1..Len(ps) : ps[i].name = name
    THEN ps[CHOOSE i \in 1..Len(ps) : ps[i].name = name].type.text
    ELSE ""

\* C28: Api and ApiClient are consistent: the same addresses in the same
\* order and nesting, a route's doc comment in both or in neither, and for
\* every address the body and query types of the signature are those of the
\* descriptor.
C28_DeclarationsConsistent ==
    emitPc = "returned" =>
        /\ ApiText = Join(TrieLines("type", root, 1), "\n")
        /\ ClientText = Join(TrieLines("client", root, 1), "\n")
        /\ \A e \in Entries : \A name \in {"body", "query"} :
              TypeNamed(methodTypeParts(e.route), name)
                  = TypeNamed(signatureParams(e.route), name)

\* C28 witness: a route with a doc comment, a body and a query, and a
\* streaming route with a doc comment and a query, were emitted.
C28_Witness ==
    /\ emitPc = "returned"
    /\ \E e \in Entries :
          /\ ~e.route.sse /\ Truthy(e.route.description)
          /\ TypeNamed(signatureParams(e.route), "body") = "string"
          /\ TypeNamed(signatureParams(e.route), "query") = "{ id: string }"
    /\ \E e \in Entries :
          /\ e.route.sse /\ Truthy(e.route.description)
          /\ TypeNamed(methodTypeParts(e.route), "query") = "string"

\* C29 (as claimed): no object level of a declaration holds two entries with
\* the same property name: the method keys of a node and the keys of its
\* children are emitted as distinct properties.
C29_DistinctPropertyNames ==
    TreeBuilt =>
        \A n \in Nodes :
            \A i \in 1..Len(n.node.methods) : \A j \in 1..Len(n.node.children) :
                Concat(n.node.methods[i].k) # propName(n.node.children[j].k)

(***************************************************************************)
(* Inputs of a run of the sync command: what the user typed and what the   *)
(* server answers.                                                         *)
(***************************************************************************)
ServerUrl == "http://localhost:3000"
CustomOut == <<"g", "/", "a", ".", "t", "s">>
UserPrefix == <<"/", "p">>

Argvs ==
    [url : {NoValue, ServerUrl}, out : {<<>>, CustomOut}, stripPrefix : {<<>>, UserPrefix}]

\* rejects: fetch rejects; ok: response.ok; parses: response.json() resolves;
\* hasRoutes: the document has a routes array; routes: that array.
Response(rejects, ok, parses, hasRoutes, rs) ==
    [rejects |-> rejects, ok |-> ok, parses |-> parses, hasRoutes |-> hasRoutes,
     routes |-> rs]

Responses ==
    { Response(TRUE, FALSE, FALSE, FALSE, <<>>),
      Response(FALSE, FALSE, FALSE, FALSE, <<>>),
      Response(FALSE, FALSE, TRUE, TRUE, <<>>),
      Response(FALSE, TRUE, FALSE, FALSE, <<>>),
      Response(FALSE, TRUE, TRUE, FALSE, <<>>) }
    \cup { Response(FALSE, ok, TRUE, TRUE, rs) :
             ok \in BOOLEAN, rs \in SeqsUpTo(EmitRoutes, MaxEmitRoutes) }

(***************************************************************************)
(* The run as a state machine: cli.parse() and the action of the sync      *)
(* command, then syncTypes step by step; the call of                       *)
(* generateTypeDefinition is made of the steps of the emitter.             *)
(***************************************************************************)
SyncInit ==
    /\ argv \in Argvs
    /\ response \in Responses
    /\ syncPc = "cli"
    /\ options = NoOptions
    /\ exitCode = <<>>
    /\ outDirs = {}
    /\ outFile = NoFile
    /\ routes = NoRoutes
    /\ stripPrefix = NoPrefix
    /\ root = EmptyMap
    /\ routeIdx = 1
    /\ treePc = "idle"
    /\ schema = Undefined
    /\ mapperPc = "idle"
    /\ typeText = ""
    /\ MethodIdle
    /\ EmitIdle

\* The option parser refuses --strip-prefix, which the command does not
\* declare: the action is not called.
CliUnknownOption ==
    /\ syncPc = "cli"
    /\ argv.stripPrefix # <<>>
    /\ "stripPrefix" \notin DeclaredOptions
    /\ syncPc' = "refused"
    /\ UNCHANGED <<argv, response, options, exitCode, outDirs, outFile,
                   mapperVars, treeVars, methodVars, emitVars>>

\* if (!options.url) { console.error(...); process.exit(1) }
CliMissingUrl ==
    /\ syncPc = "cli"
    /\ argv.url = NoValue
    /\ exitCode' = Append(exitCode, 1)
    /\ syncPc' = "usage"
    /\ UNCHANGED <<argv, response, options, outDirs, outFile,
                   mapperVars, treeVars, methodVars, emitVars>>

\* await syncTypes({ url: options.url, output: options.out, endpoint: options.endpoint })
CliCallSync ==
    /\ syncPc = "cli"
    /\ argv.url # NoValue
    /\ options' = [url |-> argv.url,
                   output |-> IF argv.out # <<>> THEN argv.out ELSE DefaultOut,
                   endpoint |-> DefaultEndpoint,
                   stripPrefix |-> IF "stripPrefix" \in DeclaredOptions
                                   THEN argv.stripPrefix ELSE NoPrefix]
    /\ syncPc' = "fetch"
    /\ UNCHANGED <<argv, response, exitCode, outDirs, outFile,
                   mapperVars, treeVars, methodVars, emitVars>>

\* catch (error) { console.error(...); process.exit(1) }
SyncFetchFail ==
    /\ syncPc = "fetch"
    /\ retrievalFails(response)
    /\ exitCode' = Append(exitCode, 1)
    /\ syncPc' = "aborted"
    /\ UNCHANGED <<argv, response, options, outDirs, outFile,
                   mapperVars, treeVars, methodVars, emitVars>>

\* contract = await response.json()
SyncFetchOk ==
    /\ syncPc = "fetch"
    /\ ~retrievalFails(response)
    /\ syncPc' = "fetched"
    /\ UNCHANGED <<argv, response, options, exitCode, outDirs, outFile,
                   mapperVars, treeVars, methodVars, emitVars>>

\* contract.routes.length of a document without routes: a TypeError, the
\* promise of syncTypes rejects
SyncNoRoutes ==
    /\ syncPc = "fetched"
    /\ ~response.hasRoutes
    /\ syncPc' = "rejected"
    /\ UNCHANGED <<argv, response, options, exitCode, outDirs, outFile,
                   mapperVars, treeVars, methodVars, emitVars>>

\* generateTypeDefinition(contract, stripPrefix) is called
SyncGenerate ==
    /\ syncPc = "fetched"
    /\ response.hasRoutes
    /\ routes' = response.routes
    /\ stripPrefix' = options.stripPrefix
    /\ version' = FirstVersion
    /\ generatedAt' = FirstTime
    /\ emitPc' = "begin"
    /\ syncPc' = "generate"
    /\ UNCHANGED <<argv, response, options, exitCode, outDirs, outFile,
                   root, routeIdx, treePc, hasSSE, lines, passes, mapperVars, methodVars>>

\* generateTypeDefinition throws: the promise of syncTypes rejects
SyncGenerateThrows ==
    /\ syncPc = "generate"
    /\ emitPc = "thrown"
    /\ syncPc' = "rejected"
    /\ UNCHANGED <<argv, response, options, exitCode, outDirs, outFile,
                   mapperVars, treeVars, methodVars, emitVars>>

\* mkdirSync(dirname(output), { recursive: true })
SyncMkdir ==
    /\ syncPc = "generate"
    /\ emitPc = "returned"
    /\ outDirs' = outDirs \cup {dirname(options.output)}
    /\ syncPc' = "write"
    /\ UNCHANGED <<argv, response, options, exitCode, outFile,
                   mapperVars, treeVars, methodVars, emitVars>>

\* writeFileSync(output, typeContent, 'utf-8')
SyncWrite ==
    /\ syncPc = "write"
    /\ outFile' = [path |-> options.output, text |-> passes[Len(passes)].text]
    /\ syncPc' = "done"
    /\ UNCHANGED <<argv, response, options, exitCode, outDirs,
                   mapperVars, treeVars, methodVars, emitVars>>

SyncNext ==
    \/ CliUnknownOption \/ CliMissingUrl \/ CliCallSync
    \/ SyncFetchFail \/ SyncFetchOk \/ SyncNoRoutes \/ SyncGenerate
    \/ EmitBegin \/ EmitHeader \/ EmitImports \/ EmitCallbacks \/ EmitNoCallbacks
    \/ EmitBuildTree \/ EmitApi \/ EmitApiThrow \/ EmitClient \/ EmitAlias
    \/ EmitFactory \/ EmitReturn
    \/ SyncGenerateThrows \/ SyncMkdir \/ SyncWrite

SyncSpec == SyncInit /\ [][SyncNext]_vars

(***************************************************************************)
(* Claims about the sync command (checked under SyncSpec).                 *)
(***************************************************************************)
\* generateTypeDefinition was called in this run.
GenerationInvoked == emitPc # "idle"

\* C23 (as claimed): the sync command takes --strip-prefix, and a prefix the
\* user supplies is the prefix generateTypeDefinition and buildRouteTree
\* receive in that run.
C23_PrefixReachesCore ==
    argv.stripPrefix # <<>> =>
        /\ syncPc # "refused"
        /\ syncPc # "cli" => options.stripPrefix = argv.stripPrefix
        /\ GenerationInvoked => stripPrefix = argv.stripPrefix

\* The request rejected, the status was not a success, or the body was not
\* JSON.
RetrievalFailed == response.rejects \/ ~response.ok \/ ~response.parses
FetchEnded == syncPc \notin {"cli", "refused", "usage", "fetch"}

\* C24: when retrieval fails the run ends with exit code 1 before
\* generateTypeDefinition is called and without a directory made or a file
\* written; a directory is made and the file written only after retrieval
\* succeeded and generation returned, and the file holds the returned text.
C24_AbortBeforeGeneration ==
    /\ (FetchEnded /\ RetrievalFailed) =>
          /\ syncPc = "aborted" /\ exitCode = <<1>>
          /\ ~GenerationInvoked
          /\ outDirs = {} /\ outFile = NoFile
    /\ (outDirs # {} \/ outFile # NoFile) =>
          /\ ~RetrievalFailed
          /\ emitPc = "returned"
          /\ passes[Len(passes)].ok
    /\ outFile # NoFile =>
          /\ outFile.path = options.output
          /\ outFile.text = passes[Len(passes)].text
          /\ dirname(outFile.path) \in outDirs

\* C24 witness: the server answered with a status that is not a success
\* and a body that is a contract, and the run ended with exit code 1.
C24_Witness ==
    /\ syncPc = "aborted"
    /\ exitCode = <<1>>
    /\ ~response.rejects /\ ~response.ok /\ response.parses /\ Len(response.routes) > 0
    /\ ~GenerationInvoked /\ outFile = NoFile

====
